---- MODULE Spec2Model ----
(***************************************************************************)
(* Twin64: a model of the T64 CPU core (T64-Cpu.cpp), the bit helpers of   *)
(* T64-Util.h and the parts of the one line assembler that fix the         *)
(* instruction encoding.                                                   *)
(*                                                                         *)
(* A T64Word is a signed 64-bit integer.  It is kept as four 16-bit limbs  *)
(* <<l0, l1, l2, l3>>, l0 the least significant, so that all 64 bits and   *)
(* the two's complement wrap are exact.  An instruction word is 32 bits,   *)
(* kept as [grp |-> bits 31..30, low |-> bits 29..0].                      *)
(***************************************************************************)
EXTENDS Integers, Sequences, FiniteSets, TLC

\* -------------------------------------------------------------------------
\* 64-bit words
\* -------------------------------------------------------------------------
Limb == 65536

HalfLimb == 32768

Pow2(n) == 2 ^ n

Zero == <<0, 0, 0, 0>>

One == <<1, 0, 0, 0>>

INT64_MAX == <<65535, 65535, 65535, 32767>>

INT64_MIN == <<0, 0, 0, 32768>>

\* (T64Word) i for a C int i: sign extension of a 32-bit value
ToWord(i) ==
    LET q == i \div Limb
        ext == IF i < 0 THEN 65535 ELSE 0
    IN  << i % Limb, q % Limb, ext, ext >>

IsNeg(a) == a[4] >= HalfLimb

WAdd(a, b) ==
    LET s1 == a[1] + b[1]
        s2 == a[2] + b[2] + (s1 \div Limb)
        s3 == a[3] + b[3] + (s2 \div Limb)
        s4 == a[4] + b[4] + (s3 \div Limb)
    IN  << s1 % Limb, s2 % Limb, s3 % Limb, s4 % Limb >>

WNot(a) == << 65535 - a[1], 65535 - a[2], 65535 - a[3], 65535 - a[4] >>

WNeg(a) == WAdd(WNot(a), One)

WSub(a, b) == WAdd(a, WNeg(b))

\* signed a < b
WLt(a, b) ==
    LET ka == (a[4] + HalfLimb) % Limb
        kb == (b[4] + HalfLimb) % Limb
    IN  \/ ka < kb
        \/ ka = kb /\ a[3] < b[3]
        \/ ka = kb /\ a[3] = b[3] /\ a[2] < b[2]
        \/ ka = kb /\ a[3] = b[3] /\ a[2] = b[2] /\ a[1] < b[1]

WGt(a, b) == WLt(b, a)

WLe(a, b) == ~ WLt(b, a)

WGe(a, b) == ~ WLt(a, b)

\* bit i (0..63) of a word
WBit(a, i) == (a[(i \div 16) + 1] \div Pow2(i % 16)) % 2

\* the word whose bit i is f[i], f a function on 0..63
LimbOf(f, b) ==
      f[b]          + f[b + 1] * 2      + f[b + 2] * 4      + f[b + 3] * 8
    + f[b + 4] * 16 + f[b + 5] * 32     + f[b + 6] * 64     + f[b + 7] * 128
    + f[b + 8] * 256 + f[b + 9] * 512   + f[b + 10] * 1024  + f[b + 11] * 2048
    + f[b + 12] * 4096 + f[b + 13] * 8192 + f[b + 14] * 16384 + f[b + 15] * 32768

WordOfLimbs(g) == << g[0], g[1], g[2], g[3] >>

FromBits(f) == WordOfLimbs([k \in 0..3 |-> LimbOf(f, 16 * k)])

WAnd(a, b) == FromBits([i \in 0..63 |-> WBit(a, i) * WBit(b, i)])

WOr(a, b) == FromBits([i \in 0..63 |-> IF WBit(a, i) + WBit(b, i) > 0 THEN 1 ELSE 0])

WXor(a, b) == FromBits([i \in 0..63 |-> (WBit(a, i) + WBit(b, i)) % 2])

\* a << n, 0 <= n <= 63, bits shifted out are lost
WShl(a, n) == FromBits([i \in 0..63 |-> IF i >= n THEN WBit(a, i - n) ELSE 0])

\* logical a >> n on the unsigned pattern, 0 <= n <= 63
WShrU(a, n) == FromBits([i \in 0..63 |-> IF i + n <= 63 THEN WBit(a, i + n) ELSE 0])

\* arithmetic a >> n of a signed T64Word, 0 <= n <= 63
WShrS(a, n) == FromBits([i \in 0..63 |-> IF i + n <= 63 THEN WBit(a, i + n) ELSE WBit(a, 63)])

\* the word with bits [len-1 : 0] set: ( 1 << len ) - 1 for 0 <= len <= 63
WMask(len) == FromBits([i \in 0..63 |-> IF i < len THEN 1 ELSE 0])


\* -------------------------------------------------------------------------
\* T64-Util.h: instruction fields.  Bit 31..30 of the word are arg.grp, bits
\* 29..0 are arg.low.
\* -------------------------------------------------------------------------
InstrShr(arg, bitpos) ==
    IF bitpos >= 30 THEN arg.grp \div Pow2(bitpos - 30)
    ELSE (arg.low \div Pow2(bitpos)) + arg.grp * Pow2(30 - bitpos)

extractInstrBit(arg, bitpos) ==
    IF bitpos > 31 THEN 0
    ELSE IF bitpos >= 30 THEN (arg.grp \div Pow2(bitpos - 30)) % 2
    ELSE (arg.low \div Pow2(bitpos)) % 2

\* fields that reach bit 30 or 31 start at bit 2 or above in every use
extractInstrFieldU(arg, bitpos, len) ==
    IF bitpos > 31 THEN 0
    ELSE IF bitpos + len > 32 THEN 0
    ELSE IF bitpos + len <= 30 THEN (arg.low \div Pow2(bitpos)) % Pow2(len)
    ELSE InstrShr(arg, bitpos) % Pow2(len)

extractInstrFieldS(arg, bitpos, len) ==
    IF len = 0 THEN 0
    ELSE LET field == (arg.low \div Pow2(bitpos)) % Pow2(len)
         IN  IF field >= Pow2(len - 1) THEN field - Pow2(len) ELSE field

extractInstrOpGroup(instr) == extractInstrFieldU(instr, 30, 2)

extractInstrOpCode(instr) == extractInstrFieldU(instr, 26, 4)

extractInstrOptField(instr) == extractInstrFieldU(instr, 19, 3)

extractInstrRegR(instr) == extractInstrFieldU(instr, 22, 4)

extractInstrRegB(instr) == extractInstrFieldU(instr, 15, 4)

extractInstrRegA(instr) == extractInstrFieldU(instr, 9, 4)

extractInstrDwField(instr) == extractInstrFieldU(instr, 13, 2)

extractInstrSignedImm13(instr) == extractInstrFieldS(instr, 0, 13)

extractInstrSignedScaledImm13(instr) ==
    extractInstrSignedImm13(instr) * Pow2(extractInstrDwField(instr))

extractInstrSignedImm15(instr) == extractInstrFieldS(instr, 0, 15)

extractInstrSignedImm19(instr) == extractInstrFieldS(instr, 0, 19)

extractInstrImm20(instr) == extractInstrFieldU(instr, 0, 20)

\* deposit into the low 30 bits of an instruction word (the assembler never
\* deposits into the group bits, it replaces them)
depositInstrField(instr, bitpos, len, value) ==
    LET old == (instr.low \div Pow2(bitpos)) % Pow2(len)
        new == value % Pow2(len)
    IN  [instr EXCEPT !.low = instr.low - old * Pow2(bitpos) + new * Pow2(bitpos)]

depositInstrBit(instr, bitpos, value) ==
    depositInstrField(instr, bitpos, 1, IF value THEN 1 ELSE 0)

depositInstrRegR(instr, regId) == depositInstrField(instr, 22, 4, regId)

depositInstrRegB(instr, regId) == depositInstrField(instr, 15, 4, regId)

depositInstrRegA(instr, regId) == depositInstrField(instr, 9, 4, regId)

\* -------------------------------------------------------------------------
\* T64-Util.h: helpers on 64-bit words
\* -------------------------------------------------------------------------
isInRange(adr, low, high) == WGe(adr, low) /\ WLe(adr, high)

isAlignedDataAdr(adr, align) ==
    IF align \in {1, 2, 4, 8} THEN adr[1] % align = 0 ELSE FALSE

isAlignedOfs(ofs, align) == ofs % align = 0

extractBit64(arg, bitpos) == IF bitpos > 63 THEN 0 ELSE WBit(arg, bitpos)

extractField64(arg, bitpos, len) ==
    IF bitpos > 63 THEN Zero
    ELSE IF bitpos + len > 64 THEN Zero
    ELSE WAnd(WShrS(arg, bitpos), WMask(len))

\* len = 0 shifts by 64, which the hardware shifters turn into a shift by 0
\* or into 0: the field is empty and the result is 0 either way
extractSignedField64(arg, bitpos, len) ==
    LET field == WAnd(WShrS(arg, bitpos), WMask(len))
    IN  IF len = 0 THEN Zero
        ELSE IF len < 64 THEN WShrS(WShl(field, 64 - len), 64 - len)
        ELSE field

depositField(word, bitpos, len, value) ==
    LET mask == WShl(WMask(len), bitpos)
    IN  WOr(WAnd(word, WNot(mask)), WAnd(WShl(value, bitpos), mask))

\* 1LL << len and 1ULL << len: a shift by the width of the word has no
\* defined result; one64 is what the build makes of it (0 when the bit is
\* shifted out, 1 when the machine takes the count modulo 64)
ShiftOne(len, one64) == IF len < 64 THEN WShl(One, len) ELSE one64

ShiftOneOutcomes == { Zero, One }

\* extractField64 with the mask computed as the code computes it
extractField64Build(arg, bitpos, len, one64) ==
    IF bitpos > 63 THEN Zero
    ELSE IF bitpos + len > 64 THEN Zero
    ELSE WAnd(WShrS(arg, bitpos), WSub(ShiftOne(len, one64), One))

\* depositField with the mask computed as the code computes it
depositFieldBuild(word, bitpos, len, value, one64) ==
    LET mask == WShl(WSub(ShiftOne(len, one64), One), bitpos)
    IN  WOr(WAnd(word, WNot(mask)), WAnd(WShl(value, bitpos), mask))

shiftRight128(hi, lo, shift) ==
    IF shift = 0 THEN lo
    ELSE IF shift > 0 /\ shift < 64 THEN WOr(WShl(hi, 64 - shift), WShrU(lo, shift))
    ELSE lo

\* willAddOverflow without the test for a positive b
willAddOverflowNegOnly(a, b) == WLt(b, Zero) /\ WLt(a, WSub(INT64_MIN, b))

willAddOverflow(a, b) ==
    \/ WGt(b, Zero) /\ WGt(a, WSub(INT64_MAX, b))
    \/ WLt(b, Zero) /\ WLt(a, WSub(INT64_MIN, b))

willSubOverflow(a, b) ==
    \/ WLt(b, Zero) /\ WGt(a, WAdd(INT64_MAX, b))
    \/ WGt(b, Zero) /\ WLt(a, WAdd(INT64_MIN, b))

\* a < b on the unsigned patterns
WLtU(a, b) ==
    \/ a[4] < b[4]
    \/ a[4] = b[4] /\ a[3] < b[3]
    \/ a[4] = b[4] /\ a[3] = b[3] /\ a[2] < b[2]
    \/ a[4] = b[4] /\ a[3] = b[3] /\ a[2] = b[2] /\ a[1] < b[1]

\* the magnitude of a signed word, as an unsigned pattern
WAbs(a) == IF IsNeg(a) THEN WNeg(a) ELSE a

\* the division of the unsigned pattern n by d, d # 0, for the bits i down
\* to lo of n: a bit is brought down to the remainder s.r, and the quotient
\* s.q gets the bit
RECURSIVE DivBits(_, _, _, _, _)
DivBits(n, d, i, lo, s) ==
    IF i < lo THEN s
    ELSE LET r2 == WAdd(WAdd(s.r, s.r), << WBit(n, i), 0, 0, 0 >>)
         IN  IF WLtU(r2, d)
             THEN DivBits(n, d, i - 1, lo, [q |-> WAdd(s.q, s.q), r |-> r2])
             ELSE DivBits(n, d, i - 1, lo,
                          [q |-> WAdd(WAdd(s.q, s.q), One), r |-> WSub(r2, d)])

\* the quotient of the unsigned patterns n and d, limb by limb of n
WDivU(n, d) ==
    LET s3 == DivBits(n, d, 63, 48, [q |-> Zero, r |-> Zero])
        s2 == DivBits(n, d, 47, 32, s3)
        s1 == DivBits(n, d, 31, 16, s2)
        s0 == DivBits(n, d, 15, 0, s1)
    IN  s0.q

\* a / b of two T64Words, b # 0 and not INT64_MIN / -1: the quotient is
\* truncated toward zero
WDivS(a, b) ==
    IF IsNeg(a) # IsNeg(b) THEN WNeg(WDivU(WAbs(a), WAbs(b)))
    ELSE WDivU(WAbs(a), WAbs(b))

MinusOne == <<65535, 65535, 65535, 65535>>

willMultOverflow(a, b) ==
    IF a = Zero \/ b = Zero THEN FALSE
    ELSE IF a = INT64_MIN /\ b = MinusOne THEN TRUE
    ELSE IF b = INT64_MIN /\ a = MinusOne THEN TRUE
    ELSE IF WGt(a, Zero)
    THEN IF WGt(b, Zero) THEN WGt(a, WDivS(INT64_MAX, b))
         ELSE WLt(b, WDivS(INT64_MIN, a))
    ELSE IF WGt(b, Zero) THEN WLt(a, WDivS(INT64_MIN, b))
         ELSE WLt(a, WDivS(INT64_MAX, b))

willShiftLeftOverflow(val, shift) ==
    IF shift < 0 \/ shift >= 63 THEN TRUE
    ELSE IF shift = 0 THEN FALSE
    ELSE WShrS(WShl(val, shift), shift) # val

vAdrRegionId(vAdr) == extractField64(vAdr, 32, 20)

vAdrPageNum(vAdr) == extractField64(vAdr, 12, 40)

extractPsrMbit(psr) == extractBit64(psr, 63) = 1

extractPsrXbit(psr) == extractBit64(psr, 61) = 1

addAdrOfs32(adr, ofs) ==
    LET s1 == adr[1] + ofs[1]
        s2 == adr[2] + ofs[2] + (s1 \div Limb)
    IN  << s1 % Limb, s2 % Limb, adr[3], adr[4] >>

\* 0xEFFFFFFF: the upper limit of the physical memory address range
T64_MAX_PHYS_MEM_LIMIT == <<65535, 61439, 0, 0>>

isInPhysMemAdrRange(adr) == WGe(adr, Zero) /\ WLe(adr, T64_MAX_PHYS_MEM_LIMIT)

\* -------------------------------------------------------------------------
\* T64-Common.h: opcode groups, opcode families, control register numbers,
\* trap codes and the trap packet
\* -------------------------------------------------------------------------
\* the opcode groups
T64OpGroups ==
    [ OPC_GRP_ALU |-> 0,
      OPC_GRP_MEM |-> 1,
      OPC_GRP_BR |-> 2,
      OPC_GRP_SYS |-> 3 ]

\* the opcodes of the ALU group
T64AluOps ==
    [ OPC_NOP |-> 0,
      OPC_ADD |-> 1,
      OPC_SUB |-> 2,
      OPC_AND |-> 3,
      OPC_OR |-> 4,
      OPC_XOR |-> 5,
      OPC_CMP_A |-> 6,
      OPC_CMP_B |-> 7,
      OPC_BITOP |-> 8,
      OPC_SHAOP |-> 9,
      OPC_IMMOP |-> 10,
      OPC_LDO |-> 11 ]

\* the opcodes only the MEM group has
T64MemOps ==
    [ OPC_LD |-> 8,
      OPC_ST |-> 9,
      OPC_LDR |-> 10,
      OPC_STC |-> 11 ]

\* the opcodes of the BR group
T64BrOps ==
    [ OPC_B |-> 1,
      OPC_BE |-> 2,
      OPC_BR |-> 3,
      OPC_BV |-> 4,
      OPC_BB |-> 8,
      OPC_CBR |-> 9,
      OPC_MBR |-> 10,
      OPC_ABR |-> 11 ]

\* the opcodes of the SYS group
T64SysOps ==
    [ OPC_MR |-> 1,
      OPC_LPA |-> 2,
      OPC_PRB |-> 3,
      OPC_TLB |-> 4,
      OPC_CA |-> 5,
      OPC_MST |-> 6,
      OPC_RFI |-> 7,
      OPC_TRAP |-> 14,
      OPC_DIAG |-> 15 ]

\* register file sizes and control register numbers
T64Regs ==
    [ T64_MAX_GREGS |-> 16,
      T64_MAX_CREGS |-> 16,
      CTL_REG_SHAMT |-> 4,
      CTL_REG_IVA |-> 11,
      CTL_REG_IPSR |-> 12,
      CTL_REG_IINSTR |-> 13,
      CTL_REG_IARG_0 |-> 14,
      CTL_REG_IARG_1 |-> 15 ]

OPC_GRP_ALU == T64OpGroups.OPC_GRP_ALU
OPC_GRP_MEM == T64OpGroups.OPC_GRP_MEM
OPC_GRP_BR == T64OpGroups.OPC_GRP_BR
OPC_GRP_SYS == T64OpGroups.OPC_GRP_SYS

OPC_NOP == T64AluOps.OPC_NOP
OPC_ADD == T64AluOps.OPC_ADD
OPC_SUB == T64AluOps.OPC_SUB
OPC_AND == T64AluOps.OPC_AND
OPC_OR == T64AluOps.OPC_OR
OPC_XOR == T64AluOps.OPC_XOR
OPC_CMP_A == T64AluOps.OPC_CMP_A
OPC_CMP_B == T64AluOps.OPC_CMP_B
OPC_BITOP == T64AluOps.OPC_BITOP
OPC_SHAOP == T64AluOps.OPC_SHAOP
OPC_IMMOP == T64AluOps.OPC_IMMOP
OPC_LDO == T64AluOps.OPC_LDO

OPC_LD == T64MemOps.OPC_LD
OPC_ST == T64MemOps.OPC_ST
OPC_LDR == T64MemOps.OPC_LDR
OPC_STC == T64MemOps.OPC_STC

OPC_B == T64BrOps.OPC_B
OPC_BE == T64BrOps.OPC_BE
OPC_BR == T64BrOps.OPC_BR
OPC_BV == T64BrOps.OPC_BV
OPC_BB == T64BrOps.OPC_BB
OPC_CBR == T64BrOps.OPC_CBR
OPC_MBR == T64BrOps.OPC_MBR
OPC_ABR == T64BrOps.OPC_ABR

OPC_MR == T64SysOps.OPC_MR
OPC_LPA == T64SysOps.OPC_LPA
OPC_PRB == T64SysOps.OPC_PRB
OPC_TLB == T64SysOps.OPC_TLB
OPC_CA == T64SysOps.OPC_CA
OPC_MST == T64SysOps.OPC_MST
OPC_RFI == T64SysOps.OPC_RFI
OPC_TRAP == T64SysOps.OPC_TRAP
OPC_DIAG == T64SysOps.OPC_DIAG

T64_MAX_GREGS == T64Regs.T64_MAX_GREGS
T64_MAX_CREGS == T64Regs.T64_MAX_CREGS

CTL_REG_SHAMT == T64Regs.CTL_REG_SHAMT
CTL_REG_IVA == T64Regs.CTL_REG_IVA
CTL_REG_IPSR == T64Regs.CTL_REG_IPSR
CTL_REG_IINSTR == T64Regs.CTL_REG_IINSTR
CTL_REG_IARG_0 == T64Regs.CTL_REG_IARG_0
CTL_REG_IARG_1 == T64Regs.CTL_REG_IARG_1

NoTrap == [trapCode |-> "NONE"]

\* T64Trap( trapCode, instrAdr, instr, arg0 ): arg1 is not passed by any caller
T64Trap(trapCode, instrAdr, instr, arg0) ==
    [trapCode |-> trapCode, instrAdr |-> instrAdr, instr |-> instr,
     arg0 |-> arg0, arg1 |-> Zero]

\* the 32-bit instruction word as a T64Word
InstrToWord(instr) ==
    << instr.low % Limb, (instr.low \div Limb) + instr.grp * 16384, 0, 0 >>

NoInstr == [grp |-> 0, low |-> 0]

\* -------------------------------------------------------------------------
\* T64-Cpu.cpp: the CPU state is the record st with the fields
\*   g (gRegFile), c (cRegFile), psr (psrReg), instrReg, resvReg,
\*   iTlb, dTlb (the entries of the processor's TLBs), mem (physical memory
\*   behind the caches).
\* A handler maps st and the instruction to a set of outcomes
\* [st |-> state when the handler returns or throws, trap |-> the T64Trap
\* thrown or NoTrap]; the set has one element unless the code's behaviour is
\* undefined.
\* -------------------------------------------------------------------------
Done(st) == { [st |-> st, trap |-> NoTrap] }

Thrown(st, trap) == { [st |-> st, trap |-> trap] }

\* getGeneralReg without the test for register zero
getGeneralRegNoZeroTest(st, index) == st.g[index % T64_MAX_GREGS]

getGeneralReg(st, index) ==
    IF index = 0 THEN Zero ELSE st.g[index % T64_MAX_GREGS]

setGeneralReg(st, index, val) ==
    IF index # 0 THEN [st EXCEPT !.g[index % T64_MAX_GREGS] = val] ELSE st

getControlReg(st, index) == st.c[index % T64_MAX_CREGS]

setControlReg(st, index, val) == [st EXCEPT !.c[index % T64_MAX_CREGS] = val]

getPsrReg(st) == st.psr

setPsrReg(st, val) == [st EXCEPT !.psr = val]

getRegR(st, instr) == getGeneralReg(st, extractInstrRegR(instr))

getRegB(st, instr) == getGeneralReg(st, extractInstrRegB(instr))

getRegA(st, instr) == getGeneralReg(st, extractInstrRegA(instr))

setRegR(st, instr, val) == setGeneralReg(st, extractInstrRegR(instr), val)

dataTlbMissTrap(st, adr) == T64Trap("DATA_TLB_MISS_TRAP", st.psr, st.instrReg, adr)

instrTlbMissTrap(st, adr) == T64Trap("INSTR_TLB_MISS_TRAP", st.psr, st.instrReg, adr)

instrAlignmentTrap(st, adr) == T64Trap("INSTR_ALIGNMENT_TRAP", st.psr, st.instrReg, adr)

instrMemProtectionTrap(st, adr) == T64Trap("INSTR_PROTECTION_TRAP", st.psr, NoInstr, adr)

dataAlignmentTrap(st, adr) == T64Trap("DATA_ALIGNMENT_TRAP", st.psr, st.instrReg, adr)

dataMemProtectionTrap(st, adr) == T64Trap("INSTR_PROTECTION_TRAP", st.psr, st.instrReg, adr)

privModeOperationTrap(st) == T64Trap("PRIV_OPERATION_TRAP", st.psr, st.instrReg, Zero)

overFlowTrap(st) == T64Trap("OVERFLOW_TRAP", st.psr, st.instrReg, Zero)

illegalInstrTrap(st) == T64Trap("ILLEGAL_INSTR_TRAP", st.psr, st.instrReg, Zero)

regionIdCheck(st, rId, wMode) ==
    /\ extractBit64(st.psr, 0) # 0
    /\ \E i \in 4..7 :
          \/ /\ extractField64(st.c[i], 0, 20) = rId
             /\ extractField64(st.c[i], 31, 1) = (IF wMode THEN One ELSE Zero)
          \/ /\ extractField64(st.c[i], 32, 20) = rId
             /\ extractField64(st.c[i], 63, 1) = (IF wMode THEN One ELSE Zero)

\* nextInstr advancing by half an instruction word
nextInstrHalfWord(st) == [st EXCEPT !.psr = addAdrOfs32(st.psr, ToWord(2))]

nextInstr(st) == [st EXCEPT !.psr = addAdrOfs32(st.psr, ToWord(4))]

evalCond(cond, val1, val2) ==
    CASE cond = 0 -> IF val1 = val2 THEN 1 ELSE 0
      [] cond = 1 -> IF WLt(val1, val2) THEN 1 ELSE 0
      [] cond = 2 -> IF WGt(val1, val2) THEN 1 ELSE 0
      [] cond = 3 -> IF WBit(val1, 0) = 0 THEN 1 ELSE 0
      [] cond = 4 -> IF val1 # val2 THEN 1 ELSE 0
      [] cond = 5 -> IF WLe(val1, val2) THEN 1 ELSE 0
      [] cond = 6 -> IF WGe(val1, val2) THEN 1 ELSE 0
      [] cond = 7 -> IF WBit(val1, 0) # 1 THEN 1 ELSE 0
      [] OTHER -> 0

\* -------------------------------------------------------------------------
\* TLB and cache interface (T64-Tlb, T64-Cache): a TLB is a set of entries,
\* found by the virtual page number; the caches are transparent, so that a
\* cache read or write is a read or write of the bytes of mem.
\* -------------------------------------------------------------------------
NoEntry == [valid |-> FALSE]

TlbEntry(vAdr, info) ==
    [valid |-> TRUE, vpn |-> vAdrPageNum(vAdr),
     pAdr |-> WShl(extractField64(info, 12, 24), 12),
     uncached |-> extractField64(info, 58, 2) # Zero,
     pageType |-> extractField64(info, 40, 2)[1]]

TlbLookup(tlb, vAdr) ==
    IF \E e \in tlb : e.vpn = vAdrPageNum(vAdr)
    THEN CHOOSE e \in tlb : e.vpn = vAdrPageNum(vAdr)
    ELSE NoEntry

TlbInsert(tlb, vAdr, info) ==
    { e \in tlb : e.vpn # vAdrPageNum(vAdr) } \cup { TlbEntry(vAdr, info) }

TlbPurge(tlb, vAdr) == { e \in tlb : e.vpn # vAdrPageNum(vAdr) }

\* the memory cells of the model: the eight bytes at 0x1000
MemBase == 4096

MemCells == MemBase .. (MemBase + 7)

MemByte(mem, pAdr, k) ==
    IF pAdr[2] = 0 /\ pAdr[3] = 0 /\ pAdr[4] = 0 /\ (pAdr[1] + k) \in MemCells
    THEN mem[pAdr[1] + k] ELSE 0

\* byte k (0 = least significant) of a word
WByte(w, k) == (w[(k \div 2) + 1] \div Pow2(8 * (k % 2))) % 256

WFromBytes(f) ==
    << f[0] + 256 * f[1], f[2] + 256 * f[3], f[4] + 256 * f[5], f[6] + 256 * f[7] >>

\* cache read of len bytes at pAdr into the host bytes wordOfs .. 7 of a zero
\* word: memory is big-endian, the host word little-endian
CacheRead(mem, pAdr, len) ==
    LET wordOfs == 8 - len
    IN  WFromBytes([k \in 0..7 |->
            IF k >= wordOfs THEN MemByte(mem, pAdr, len - 1 - (k - wordOfs)) ELSE 0])

\* cache write of the host bytes wordOfs .. 7 of data to pAdr
CacheWrite(mem, pAdr, data, len) ==
    LET wordOfs == 8 - len
    IN  [a \in MemCells |->
            IF /\ pAdr[2] = 0 /\ pAdr[3] = 0 /\ pAdr[4] = 0
               /\ a >= pAdr[1] /\ a < pAdr[1] + len
            THEN WByte(data, wordOfs + (len - 1 - (a - pAdr[1])))
            ELSE mem[a]]

\* -------------------------------------------------------------------------
\* T64-Cpu.cpp: memory access
\* -------------------------------------------------------------------------
\* the default upper limit of the CPU's physical memory range
T64_DEF_PHYS_MEM_LIMIT == T64_MAX_PHYS_MEM_LIMIT

isPhysMemAdr(st, vAdr) == isInRange(vAdr, Zero, T64_DEF_PHYS_MEM_LIMIT)

\* instrRead with the privilege check in front of the alignment check
instrReadPrivFirst(st, vAdr, word) ==
    IF isInPhysMemAdrRange(vAdr) /\ ~ extractPsrXbit(st.psr)
    THEN [trap |-> privModeOperationTrap(st), instr |-> NoInstr]
    ELSE IF ~ isAlignedDataAdr(vAdr, 4)
    THEN [trap |-> instrAlignmentTrap(st, vAdr), instr |-> NoInstr]
    ELSE IF isInPhysMemAdrRange(vAdr)
    THEN [trap |-> NoTrap, instr |-> word]
    ELSE LET tlbPtr == TlbLookup(st.iTlb, vAdr)
         IN  IF tlbPtr = NoEntry
             THEN [trap |-> instrTlbMissTrap(st, vAdr), instr |-> NoInstr]
             ELSE IF ~ regionIdCheck(st, vAdrRegionId(vAdr), FALSE)
             THEN [trap |-> instrMemProtectionTrap(st, vAdr), instr |-> NoInstr]
             ELSE [trap |-> NoTrap, instr |-> word]

\* word is the content of instruction memory at vAdr
instrRead(st, vAdr, word) ==
    IF ~ isAlignedDataAdr(vAdr, 4)
    THEN [trap |-> instrAlignmentTrap(st, vAdr), instr |-> NoInstr]
    ELSE IF isInPhysMemAdrRange(vAdr)
    THEN IF ~ extractPsrXbit(st.psr)
         THEN [trap |-> privModeOperationTrap(st), instr |-> NoInstr]
         ELSE [trap |-> NoTrap, instr |-> word]
    ELSE LET tlbPtr == TlbLookup(st.iTlb, vAdr)
         IN  IF tlbPtr = NoEntry
             THEN [trap |-> instrTlbMissTrap(st, vAdr), instr |-> NoInstr]
             ELSE IF ~ regionIdCheck(st, vAdrRegionId(vAdr), FALSE)
             THEN [trap |-> instrMemProtectionTrap(st, vAdr), instr |-> NoInstr]
             ELSE [trap |-> NoTrap, instr |-> word]

SignExtendRead(data, len, sExt) ==
    IF ~ sExt THEN data
    ELSE CASE len = 1 -> extractSignedField64(data, 7, 8)
           [] len = 2 -> extractSignedField64(data, 15, 16)
           [] len = 4 -> extractSignedField64(data, 31, 32)
           [] OTHER -> data

dataRead(st, vAdr, len, sExt) ==
    IF ~ isAlignedDataAdr(vAdr, len)
    THEN [trap |-> dataAlignmentTrap(st, vAdr), data |-> Zero]
    ELSE IF isPhysMemAdr(st, vAdr)
    THEN IF ~ extractPsrXbit(st.psr)
         THEN [trap |-> privModeOperationTrap(st), data |-> Zero]
         ELSE [trap |-> NoTrap,
               data |-> SignExtendRead(CacheRead(st.mem, vAdr, len), len, sExt)]
    ELSE LET tlbPtr == TlbLookup(st.dTlb, vAdr)
         IN  IF tlbPtr = NoEntry
             THEN [trap |-> dataTlbMissTrap(st, vAdr), data |-> Zero]
             ELSE IF ~ regionIdCheck(st, vAdrRegionId(vAdr), FALSE)
             THEN [trap |-> dataMemProtectionTrap(st, vAdr), data |-> Zero]
             ELSE [trap |-> NoTrap,
                   data |-> SignExtendRead(CacheRead(st.mem, tlbPtr.pAdr, len), len, sExt)]

\* the outcome of a data write: the trap thrown, or the state with mem written
dataWrite(st, vAdr, data, len) ==
    IF ~ isAlignedDataAdr(vAdr, len)
    THEN Thrown(st, dataAlignmentTrap(st, vAdr))
    ELSE IF isPhysMemAdr(st, vAdr)
    THEN IF ~ extractPsrXbit(st.psr)
         THEN Thrown(st, privModeOperationTrap(st))
         ELSE Done([st EXCEPT !.mem = CacheWrite(st.mem, vAdr, data, len)])
    ELSE LET tlbPtr == TlbLookup(st.dTlb, vAdr)
         IN  IF tlbPtr = NoEntry
             THEN Thrown(st, dataTlbMissTrap(st, vAdr))
             ELSE IF ~ regionIdCheck(st, vAdrRegionId(vAdr), TRUE)
             THEN Thrown(st, dataMemProtectionTrap(st, vAdr))
             ELSE Done([st EXCEPT !.mem = CacheWrite(st.mem, tlbPtr.pAdr, data, len)])

dataReadRegBOfsImm13(st, instr) ==
    LET adr == getRegB(st, instr)
        dw == extractInstrDwField(instr)
        ofs == ToWord(extractInstrSignedScaledImm13(instr))
    IN  dataRead(st, addAdrOfs32(adr, ofs), Pow2(dw), TRUE)

dataReadRegBOfsRegX(st, instr) ==
    LET adr == getRegB(st, instr)
        dw == extractInstrDwField(instr)
        ofs == WShl(getRegA(st, instr), dw)
    IN  dataRead(st, addAdrOfs32(adr, ofs), Pow2(dw), TRUE)

dataWriteRegBOfsImm13(st, instr) ==
    LET adr == getRegB(st, instr)
        dw == extractInstrDwField(instr)
        ofs == ToWord(extractInstrSignedScaledImm13(instr))
    IN  dataWrite(st, addAdrOfs32(adr, ofs), getRegR(st, instr), Pow2(dw))

dataWriteRegBOfsRegX(st, instr) ==
    LET adr == getRegB(st, instr)
        dw == extractInstrDwField(instr)
        ofs == WShl(getRegA(st, instr), dw)
    IN  dataWrite(st, addAdrOfs32(adr, ofs), getRegR(st, instr), Pow2(dw))

\* -------------------------------------------------------------------------
\* T64-Cpu.cpp: the instruction handlers
\* -------------------------------------------------------------------------
\* instrAluAddOp writing the result before the overflow check
instrAluAddOpWriteFirst(st, instr) ==
    LET val1 == getRegB(st, instr)
        opt == extractInstrFieldU(instr, 19, 3)
        val2 == IF opt = 0 THEN getRegA(st, instr)
                ELSE ToWord(extractInstrSignedImm15(instr))
        written == setRegR(st, instr, WAdd(val1, val2))
    IN  IF opt \notin {0, 1} THEN Thrown(st, illegalInstrTrap(st))
        ELSE IF willAddOverflow(val1, val2) THEN Thrown(written, overFlowTrap(st))
        ELSE Done(nextInstr(written))

instrAluAddOp(st, instr) ==
    LET val1 == getRegB(st, instr)
        opt == extractInstrFieldU(instr, 19, 3)
        val2 == IF opt = 0 THEN getRegA(st, instr)
                ELSE ToWord(extractInstrSignedImm15(instr))
    IN  IF opt \notin {0, 1} THEN Thrown(st, illegalInstrTrap(st))
        ELSE IF willAddOverflow(val1, val2) THEN Thrown(st, overFlowTrap(st))
        ELSE Done(nextInstr(setRegR(st, instr, WAdd(val1, val2))))

instrMemAddOp(st, instr) ==
    LET val1 == getRegR(st, instr)
        opt == extractInstrFieldU(instr, 19, 3)
        add(val2) ==
            IF willAddOverflow(val1, val2) THEN Thrown(st, overFlowTrap(st))
            ELSE Done(nextInstr(setRegR(st, instr, WAdd(val1, val2))))
        read(rd) == IF rd.trap # NoTrap THEN Thrown(st, rd.trap) ELSE add(rd.data)
    IN  CASE opt = 0 -> add(getRegA(st, instr))
          [] opt = 1 -> read(dataReadRegBOfsImm13(st, instr))
          [] OTHER -> Thrown(st, illegalInstrTrap(st))

instrAluSubOp(st, instr) ==
    LET val1 == getRegR(st, instr)
        opt == extractInstrFieldU(instr, 19, 3)
        val2 == IF opt = 0 THEN getRegA(st, instr)
                ELSE ToWord(extractInstrSignedImm15(instr))
    IN  IF opt \notin {0, 1} THEN Thrown(st, illegalInstrTrap(st))
        ELSE IF willSubOverflow(val1, val2) THEN Thrown(st, overFlowTrap(st))
        ELSE Done(nextInstr(setRegR(st, instr, WSub(val1, val2))))

instrMemSubOp(st, instr) ==
    LET val1 == getRegR(st, instr)
        opt == extractInstrFieldU(instr, 19, 3)
        val2 == IF opt = 0 THEN getRegA(st, instr)
                ELSE ToWord(extractInstrSignedScaledImm13(instr))
    IN  IF opt \notin {0, 1} THEN Thrown(st, illegalInstrTrap(st))
        ELSE IF willSubOverflow(val1, val2) THEN Thrown(st, overFlowTrap(st))
        ELSE Done(nextInstr(setRegR(st, instr, WSub(val1, val2))))

\* the common tail of the AND, OR and XOR handlers: bit 20 complements val1
\* (or is illegal), bit 21 negates the result, target names the word whose
\* RegR field selects the register written
LogicTail(st, instr, target, val1, val2, op, bit20Illegal) ==
    LET v1 == IF extractInstrBit(instr, 20) = 1 THEN WNot(val1) ELSE val1
        r0 == CASE op = "AND" -> WAnd(v1, val2)
                [] op = "OR" -> WOr(v1, val2)
                [] OTHER -> WXor(val1, val2)
        res == IF extractInstrBit(instr, 21) = 1 THEN WNot(r0) ELSE r0
    IN  IF bit20Illegal /\ extractInstrBit(instr, 20) = 1
        THEN Thrown(st, illegalInstrTrap(st))
        ELSE Done(nextInstr(setRegR(st, target, res)))

AluSrc(st, instr) ==
    IF extractInstrBit(instr, 19) = 1 THEN getRegA(st, instr)
    ELSE ToWord(extractInstrSignedImm15(instr))

MemSrc(st, instr) ==
    IF extractInstrBit(instr, 19) = 1 THEN dataReadRegBOfsImm13(st, instr)
    ELSE dataReadRegBOfsRegX(st, instr)

instrAluAndOp(st, instr) ==
    LogicTail(st, instr, instr, getRegB(st, instr), AluSrc(st, instr), "AND", FALSE)

instrMemAndOp(st, instr) ==
    LET read(rd) ==
            IF rd.trap # NoTrap THEN Thrown(st, rd.trap)
            ELSE LogicTail(st, instr, instr, getRegB(st, instr), rd.data, "AND", FALSE)
    IN  read(MemSrc(st, instr))

instrAluOrOp(st, instr) ==
    LogicTail(st, instr, instr, getRegB(st, instr), AluSrc(st, instr), "OR", FALSE)

instrMemOrOp(st, instr) ==
    LET read(rd) ==
            IF rd.trap # NoTrap THEN Thrown(st, rd.trap)
            ELSE LogicTail(st, instr, st.instrReg, getRegB(st, instr), rd.data, "OR", FALSE)
    IN  read(MemSrc(st, instr))

instrAluXorOp(st, instr) ==
    LogicTail(st, instr, instr, getRegB(st, instr), AluSrc(st, instr), "XOR", TRUE)

instrMemXorOp(st, instr) ==
    LET read(rd) ==
            IF rd.trap # NoTrap THEN Thrown(st, rd.trap)
            ELSE LogicTail(st, instr, instr, getRegB(st, instr), rd.data, "XOR", TRUE)
    IN  read(MemSrc(st, instr))

instrAluCmpOp(st, instr) ==
    LET val1 == getRegB(st, instr)
        opCode == extractInstrOpCode(instr)
        val2 == IF opCode = OPC_CMP_A THEN getRegA(st, instr)
                ELSE ToWord(extractInstrSignedImm15(instr))
    IN  IF opCode \notin {OPC_CMP_A, OPC_CMP_B} THEN Thrown(st, illegalInstrTrap(st))
        ELSE Done(nextInstr(setRegR(st, instr,
                 ToWord(evalCond(extractInstrFieldU(instr, 19, 3), val1, val2)))))

instrMemCmpOp(st, instr) ==
    LET val1 == getRegB(st, st.instrReg)
        opCode == extractInstrOpCode(instr)
        read(rd) ==
            IF rd.trap # NoTrap THEN Thrown(st, rd.trap)
            ELSE Done(nextInstr(setRegR(st, instr,
                     ToWord(evalCond(extractInstrFieldU(instr, 19, 3), val1, rd.data)))))
    IN  IF opCode \notin {OPC_CMP_A, OPC_CMP_B} THEN Thrown(st, illegalInstrTrap(st))
        ELSE read(IF opCode = OPC_CMP_A THEN dataReadRegBOfsImm13(st, instr)
                  ELSE dataReadRegBOfsRegX(st, instr))

\* (int) cRegFile[ CTL_REG_SHAMT ] & 0x3F
ShamtReg(st) == st.c[CTL_REG_SHAMT][1] % 64

instrAluBitOp(st, instr) ==
    LET opt == extractInstrFieldU(instr, 19, 3)
        len == extractInstrFieldU(instr, 0, 6)
        pos == IF extractInstrBit(instr, 13) = 1 THEN ShamtReg(st)
               ELSE extractInstrFieldU(instr, 6, 6)
        extr == IF extractInstrBit(instr, 12) = 1
                THEN extractSignedField64(getRegB(st, instr), pos, len)
                ELSE extractField64(getRegB(st, instr), pos, len)
        depBase == IF extractInstrBit(instr, 12) = 0 THEN getRegR(st, instr) ELSE Zero
        depVal == IF extractInstrBit(instr, 14) = 1
                  THEN ToWord(extractInstrFieldU(instr, 15, 4))
                  ELSE getRegB(st, instr)
        shamt == IF extractInstrBit(instr, 13) = 1 THEN ShamtReg(st)
                 ELSE extractInstrFieldU(instr, 0, 6)
    IN  CASE opt = 0 -> Done(nextInstr(setRegR(st, instr, extr)))
          [] opt = 1 -> Done(nextInstr(setRegR(st, instr,
                            depositField(depBase, pos, len, depVal))))
          [] opt = 3 -> Done(nextInstr(setRegR(st, instr,
                            shiftRight128(getRegB(st, instr), getRegA(st, instr), shamt))))
          [] OTHER -> Thrown(st, illegalInstrTrap(st))

instrAluShaOP(st, instr) ==
    LET val1 == getRegB(st, instr)
        shamt == extractInstrFieldU(instr, 13, 2)
        opt == extractInstrFieldU(instr, 19, 3)
        val2 == IF opt \in {0, 2} THEN getRegA(st, instr)
                ELSE ToWord(extractInstrSignedImm13(instr))
        res == IF opt \in {0, 1} THEN WShl(val1, shamt) ELSE WShrS(val1, shamt)
    IN  IF opt \notin {0, 1, 2, 3} THEN Thrown(st, illegalInstrTrap(st))
        ELSE IF opt \in {0, 1} /\ willShiftLeftOverflow(val1, shamt)
        THEN Thrown(st, overFlowTrap(st))
        ELSE IF willAddOverflow(res, val2) THEN Thrown(st, overFlowTrap(st))
        ELSE Done(nextInstr(setRegR(st, st.instrReg, WAdd(res, val2))))

instrAluImmOp(st, instr) ==
    LET val == ToWord(extractInstrImm20(instr))
        old == getRegR(st, instr)
        opt == extractInstrFieldU(instr, 20, 2)
        res == CASE opt = 0 -> addAdrOfs32(old, val)
                 [] opt = 1 -> WShl(val, 12)
                 [] OTHER -> old
    IN  Done(nextInstr(setRegR(st, instr, res)))

instrAluLdoOp(st, instr) ==
    LET base == getRegB(st, instr)
        ofs == ToWord(extractInstrSignedScaledImm13(instr))
    IN  Done(nextInstr(setRegR(st, instr, addAdrOfs32(base, ofs))))

instrMemLdOp(st, instr) ==
    LET opt == extractInstrFieldU(instr, 19, 3)
        read(rd) == IF rd.trap # NoTrap THEN Thrown(st, rd.trap)
                    ELSE Done(nextInstr(setRegR(st, instr, rd.data)))
    IN  IF opt \notin {0, 1} THEN Thrown(st, illegalInstrTrap(st))
        ELSE read(IF opt = 0 THEN dataReadRegBOfsImm13(st, instr)
                  ELSE dataReadRegBOfsRegX(st, instr))

instrMemLdrOp(st, instr) ==
    LET read(rd) == IF rd.trap # NoTrap THEN Thrown(st, rd.trap)
                    ELSE Done(nextInstr(setRegR(st, instr, rd.data)))
    IN  IF extractInstrFieldU(instr, 19, 3) # 0 THEN Thrown(st, illegalInstrTrap(st))
        ELSE read(dataReadRegBOfsImm13(st, instr))

\* nextInstr after a data write that did not throw
AfterWrite(outs) ==
    { IF o.trap = NoTrap THEN [st |-> nextInstr(o.st), trap |-> NoTrap] ELSE o : o \in outs }

instrMemStOp(st, instr) ==
    LET opt == extractInstrFieldU(instr, 19, 3)
    IN  CASE opt = 0 -> AfterWrite(dataWriteRegBOfsImm13(st, instr))
          [] opt = 1 -> AfterWrite(dataWriteRegBOfsRegX(st, instr))
          [] OTHER -> Thrown(st, illegalInstrTrap(st))

instrMemStcOp(st, instr) ==
    IF extractInstrFieldU(instr, 19, 3) # 0 THEN Thrown(st, illegalInstrTrap(st))
    ELSE AfterWrite(dataWriteRegBOfsImm13(st, instr))

instrBrBOp(st, instr) ==
    LET ofs == ToWord(extractInstrSignedImm19(instr) * 4)
        rl == addAdrOfs32(st.psr, ToWord(4))
        newIA == addAdrOfs32(st.psr, ofs)
    IN  Done(setRegR([st EXCEPT !.psr = newIA], instr, rl))

instrBrBeOp(st, instr) ==
    LET newIABase == getRegB(st, instr)
        ofs == ToWord(extractInstrSignedImm19(instr) * 4)
        newIA == addAdrOfs32(newIABase, ofs)
        rl == addAdrOfs32(st.psr, ToWord(4))
    IN  IF extractInstrFieldU(instr, 19, 3) # 0 THEN Thrown(st, illegalInstrTrap(st))
        ELSE Done(setRegR([st EXCEPT !.psr = newIA], instr, rl))

instrBrBrOp(st, instr) ==
    LET newIA == addAdrOfs32(st.psr, getRegB(st, instr))
        rl == addAdrOfs32(st.psr, ToWord(4))
    IN  IF extractInstrFieldU(instr, 19, 3) # 0 THEN Thrown(st, illegalInstrTrap(st))
        ELSE IF ~ isAlignedDataAdr(newIA, 4) THEN Thrown(st, instrAlignmentTrap(st, newIA))
        ELSE Done(setRegR([st EXCEPT !.psr = newIA], instr, rl))

instrBrBvOp(st, instr) ==
    LET base == getRegB(st, instr)
        ofs == getRegA(st, instr)
        rl == addAdrOfs32(st.psr, ToWord(4))
        newIA == addAdrOfs32(base, ofs)
    IN  IF extractInstrFieldU(instr, 19, 3) # 0 THEN Thrown(st, illegalInstrTrap(st))
        ELSE IF ~ isAlignedDataAdr(newIA, 4) THEN Thrown(st, instrAlignmentTrap(st, newIA))
        ELSE Done(setRegR([st EXCEPT !.psr = newIA], instr, rl))

instrBrBbOp(st, instr) ==
    LET testVal == extractInstrBit(instr, 19)
        pos == IF extractInstrBit(instr, 20) = 1 THEN ShamtReg(st)
               ELSE extractInstrFieldU(instr, 13, 6)
        testBit == extractInstrBit(instr, pos)
    IN  IF extractInstrBit(instr, 21) = 1 THEN Thrown(st, illegalInstrTrap(st))
        ELSE IF testVal # testBit
        THEN Done([st EXCEPT !.psr =
                      addAdrOfs32(st.psr, ToWord(extractInstrSignedImm13(instr) * 4))])
        ELSE Done(nextInstr(st))

\* the tail of ABR, CBR and MBR: branch by the imm15 field or go on
CondBranch(st, instr, val1, val2) ==
    IF evalCond(extractInstrFieldU(instr, 19, 3), val1, val2) # 0
    THEN [st EXCEPT !.psr = addAdrOfs32(st.psr, ToWord(extractInstrSignedImm15(instr)))]
    ELSE nextInstr(st)

instrBrAbrOp(st, instr) ==
    LET val1 == getRegR(st, instr)
        val2 == getRegB(st, instr)
        sum == WAdd(val1, val2)
    IN  IF willAddOverflow(val1, val2) THEN Thrown(st, overFlowTrap(st))
        ELSE Done(CondBranch(setRegR(st, instr, sum), instr, sum, Zero))

instrBrCbrOp(st, instr) ==
    Done(CondBranch(st, instr, getRegR(st, instr), getRegB(st, instr)))

instrBrMbrOp(st, instr) ==
    LET val == getRegB(st, instr)
    IN  Done(CondBranch(setRegR(st, instr, val), instr, val, Zero))

instrSysMrOp(st, instr) ==
    LET opt == extractInstrFieldU(instr, 19, 3)
        cReg == extractInstrFieldU(instr, 0, 4)
    IN  CASE opt = 0 -> Done(nextInstr(setRegR(st, instr, st.c[cReg])))
          [] opt = 1 -> Done(nextInstr([st EXCEPT !.c[cReg] = getRegR(st, instr)]))
          [] opt = 4 -> Done(nextInstr(setRegR(st, instr, st.psr)))
          [] opt = 5 -> Done(nextInstr(setRegR(st, instr, extractField64(st.psr, 12, 20))))
          [] opt = 6 -> Done(nextInstr(setRegR(st, instr, extractField64(st.psr, 32, 20))))
          [] opt = 7 -> Done(nextInstr(setRegR(st, instr, extractField64(st.psr, 52, 12))))
          [] OTHER -> Thrown(st, illegalInstrTrap(st))

instrSysLpaOp(st, instr) ==
    LET vAdr == addAdrOfs32(getRegB(st, instr), getRegA(st, instr))
        e == TlbLookup(st.dTlb, vAdr)
    IN  IF ~ extractPsrXbit(st.psr) THEN Thrown(st, privModeOperationTrap(st))
        ELSE IF extractInstrFieldU(instr, 19, 3) # 0 THEN Thrown(st, illegalInstrTrap(st))
        ELSE IF e = NoEntry THEN Done(nextInstr(setRegR(st, instr, Zero)))
        ELSE Done(nextInstr(setRegR(st, instr, e.pAdr)))

\* with no entry for vAdr the handler reads pageType through a null pointer:
\* either result may come out
instrSysPrbOp(st, instr) ==
    LET vAdr == getRegB(st, instr)
        fld == extractInstrFieldU(instr, 13, 2)
        mode == IF fld = 3 THEN extractField64(getRegA(st, instr), 0, 2)[1] ELSE fld
        privLevel == extractBit64(st.psr, 62)
        e == TlbLookup(st.dTlb, vAdr)
    IN  IF privLevel # 1 THEN Done(nextInstr(setRegR(st, instr, One)))
        ELSE IF e = NoEntry
        THEN { [st |-> nextInstr(setRegR(st, instr, v)), trap |-> NoTrap] : v \in {Zero, One} }
        ELSE Done(nextInstr(setRegR(st, instr,
                      IF e.pageType = mode THEN One ELSE Zero)))

instrSysTlbOp(st, instr) ==
    LET opt == extractInstrFieldU(instr, 19, 3)
        vAdr == addAdrOfs32(getRegB(st, instr), getRegA(st, instr))
        set1(t) == nextInstr(setRegR(t, instr, One))
    IN  CASE opt = 0 -> Done(set1([st EXCEPT !.iTlb =
                            TlbInsert(st.iTlb, getRegB(st, instr), getRegA(st, instr))]))
          [] opt = 1 -> Done(set1([st EXCEPT !.dTlb =
                            TlbInsert(st.dTlb, getRegB(st, instr), getRegA(st, instr))]))
          [] opt = 2 -> Done(set1([st EXCEPT !.iTlb = TlbPurge(st.iTlb, vAdr)]))
          [] opt = 3 -> Done(set1([st EXCEPT !.dTlb = TlbPurge(st.dTlb, vAdr)]))
          [] OTHER -> Thrown(st, illegalInstrTrap(st))

\* caOp records the cache operation the handler performed last
instrSysCaOp(st, instr) ==
    LET opt == extractInstrFieldU(instr, 19, 3)
        vAdr == addAdrOfs32(getRegB(st, instr), getRegA(st, instr))
        did(cache, what) ==
            nextInstr(setRegR([st EXCEPT !.caOp = <<cache, what, vAdr>>], instr, One))
    IN  CASE opt = 0 -> Done(did("iCache", "flush"))
          [] opt = 1 -> Done(did("dCache", "flush"))
          [] opt = 2 -> Done(did("iCache", "purge"))
          [] opt = 3 -> Done(did("dCache", "purge"))
          [] OTHER -> Thrown(st, illegalInstrTrap(st))

instrSysMstOp(st, instr) ==
    IF extractInstrFieldU(instr, 19, 3) \in {0, 1} THEN Done(nextInstr(st))
    ELSE Thrown(st, illegalInstrTrap(st))

\* instrSysRfiOp advancing the restored PSR like the other handlers do
instrSysRfiOpAdvancing(st, instr) ==
    IF extractInstrFieldU(instr, 19, 3) # 0 THEN Thrown(st, illegalInstrTrap(st))
    ELSE Done(nextInstr([setRegR(st, instr, addAdrOfs32(st.psr, ToWord(4)))
                            EXCEPT !.psr = st.c[CTL_REG_IPSR]]))

instrSysRfiOp(st, instr) ==
    IF extractInstrFieldU(instr, 19, 3) # 0 THEN Thrown(st, illegalInstrTrap(st))
    ELSE Done([setRegR(st, instr, addAdrOfs32(st.psr, ToWord(4)))
                  EXCEPT !.psr = st.c[CTL_REG_IPSR]])

diagOpHandler(opt, arg1, arg2) == Zero

instrSysDiagOp(st, instr) ==
    LET diagOpt == extractInstrFieldU(instr, 19, 3) * 4 + extractInstrFieldU(instr, 13, 2)
    IN  Done(nextInstr(setRegR(st, instr,
                 diagOpHandler(diagOpt, getRegB(st, instr), getRegA(st, instr)))))

instrSysTrapOp(st, instr) == Done(nextInstr(st))

\* -------------------------------------------------------------------------
\* T64-Cpu.cpp: instrExecute and step
\* -------------------------------------------------------------------------
\* the value instrExecute switches on
DispatchKey(instr) == extractInstrOpCode(instr)

\* the case labels of the switch in instrExecute
HandlerOfKey(key) ==
    CASE key = OPC_GRP_ALU * 16 + OPC_ADD -> "instrAluAddOp"
      [] key = OPC_GRP_MEM * 16 + OPC_ADD -> "instrMemAddOp"
      [] key = OPC_GRP_ALU * 16 + OPC_SUB -> "instrAluSubOp"
      [] key = OPC_GRP_MEM * 16 + OPC_SUB -> "instrMemSubOp"
      [] key = OPC_GRP_ALU * 16 + OPC_AND -> "instrAluAndOp"
      [] key = OPC_GRP_MEM * 16 + OPC_AND -> "instrMemAndOp"
      [] key = OPC_GRP_ALU * 16 + OPC_OR -> "instrAluOrOp"
      [] key = OPC_GRP_MEM * 16 + OPC_OR -> "instrMemOrOp"
      [] key = OPC_GRP_ALU * 16 + OPC_XOR -> "instrAluXorOp"
      [] key = OPC_GRP_MEM * 16 + OPC_XOR -> "instrMemXorOp"
      [] key = OPC_GRP_ALU * 16 + OPC_CMP_A -> "instrAluCmpOp"
      [] key = OPC_GRP_ALU * 16 + OPC_CMP_B -> "instrAluCmpOp"
      [] key = OPC_GRP_MEM * 16 + OPC_CMP_A -> "instrMemCmpOp"
      [] key = OPC_GRP_MEM * 16 + OPC_CMP_B -> "instrMemCmpOp"
      [] key = OPC_GRP_ALU * 16 + OPC_BITOP -> "instrAluBitOp"
      [] key = OPC_GRP_ALU * 16 + OPC_SHAOP -> "instrAluShaOP"
      [] key = OPC_GRP_ALU * 16 + OPC_IMMOP -> "instrAluImmOp"
      [] key = OPC_GRP_ALU * 16 + OPC_LDO -> "instrAluLdoOp"
      [] key = OPC_GRP_MEM * 16 + OPC_LD -> "instrMemLdOp"
      [] key = OPC_GRP_MEM * 16 + OPC_LDR -> "instrMemLdrOp"
      [] key = OPC_GRP_MEM * 16 + OPC_ST -> "instrMemStOp"
      [] key = OPC_GRP_MEM * 16 + OPC_STC -> "instrMemStcOp"
      [] key = OPC_GRP_BR * 16 + OPC_B -> "instrBrBOp"
      [] key = OPC_GRP_BR * 16 + OPC_BE -> "instrBrBeOp"
      [] key = OPC_GRP_BR * 16 + OPC_BR -> "instrBrBrOp"
      [] key = OPC_GRP_BR * 16 + OPC_BB -> "instrBrBbOp"
      [] key = OPC_GRP_BR * 16 + OPC_ABR -> "instrBrAbrOp"
      [] key = OPC_GRP_BR * 16 + OPC_CBR -> "instrBrCbrOp"
      [] key = OPC_GRP_BR * 16 + OPC_MBR -> "instrBrMbrOp"
      [] key = OPC_GRP_SYS * 16 + OPC_MR -> "instrSysMrOp"
      [] key = OPC_GRP_SYS * 16 + OPC_LPA -> "instrSysLpaOp"
      [] key = OPC_GRP_SYS * 16 + OPC_PRB -> "instrSysPrbOp"
      [] key = OPC_GRP_SYS * 16 + OPC_TLB -> "instrSysTlbOp"
      [] key = OPC_GRP_SYS * 16 + OPC_CA -> "instrSysCaOp"
      [] key = OPC_GRP_SYS * 16 + OPC_MST -> "instrSysMstOp"
      [] key = OPC_GRP_SYS * 16 + OPC_RFI -> "instrSysRfiOp"
      [] key = OPC_GRP_SYS * 16 + OPC_DIAG -> "instrSysDiagOp"
      [] key = OPC_GRP_SYS * 16 + OPC_TRAP -> "instrSysTrapOp"
      [] OTHER -> "illegalInstrTrap"

RunHandler(name, st, instr) ==
    CASE name = "instrAluAddOp" -> instrAluAddOp(st, instr)
      [] name = "instrMemAddOp" -> instrMemAddOp(st, instr)
      [] name = "instrAluSubOp" -> instrAluSubOp(st, instr)
      [] name = "instrMemSubOp" -> instrMemSubOp(st, instr)
      [] name = "instrAluAndOp" -> instrAluAndOp(st, instr)
      [] name = "instrMemAndOp" -> instrMemAndOp(st, instr)
      [] name = "instrAluOrOp" -> instrAluOrOp(st, instr)
      [] name = "instrMemOrOp" -> instrMemOrOp(st, instr)
      [] name = "instrAluXorOp" -> instrAluXorOp(st, instr)
      [] name = "instrMemXorOp" -> instrMemXorOp(st, instr)
      [] name = "instrAluCmpOp" -> instrAluCmpOp(st, instr)
      [] name = "instrMemCmpOp" -> instrMemCmpOp(st, instr)
      [] name = "instrAluBitOp" -> instrAluBitOp(st, instr)
      [] name = "instrAluShaOP" -> instrAluShaOP(st, instr)
      [] name = "instrAluImmOp" -> instrAluImmOp(st, instr)
      [] name = "instrAluLdoOp" -> instrAluLdoOp(st, instr)
      [] name = "instrMemLdOp" -> instrMemLdOp(st, instr)
      [] name = "instrMemLdrOp" -> instrMemLdrOp(st, instr)
      [] name = "instrMemStOp" -> instrMemStOp(st, instr)
      [] name = "instrMemStcOp" -> instrMemStcOp(st, instr)
      [] name = "instrBrBOp" -> instrBrBOp(st, instr)
      [] name = "instrBrBeOp" -> instrBrBeOp(st, instr)
      [] name = "instrBrBrOp" -> instrBrBrOp(st, instr)
      [] name = "instrBrBbOp" -> instrBrBbOp(st, instr)
      [] name = "instrBrAbrOp" -> instrBrAbrOp(st, instr)
      [] name = "instrBrCbrOp" -> instrBrCbrOp(st, instr)
      [] name = "instrBrMbrOp" -> instrBrMbrOp(st, instr)
      [] name = "instrSysMrOp" -> instrSysMrOp(st, instr)
      [] name = "instrSysLpaOp" -> instrSysLpaOp(st, instr)
      [] name = "instrSysPrbOp" -> instrSysPrbOp(st, instr)
      [] name = "instrSysTlbOp" -> instrSysTlbOp(st, instr)
      [] name = "instrSysCaOp" -> instrSysCaOp(st, instr)
      [] name = "instrSysMstOp" -> instrSysMstOp(st, instr)
      [] name = "instrSysRfiOp" -> instrSysRfiOp(st, instr)
      [] name = "instrSysDiagOp" -> instrSysDiagOp(st, instr)
      [] name = "instrSysTrapOp" -> instrSysTrapOp(st, instr)
      [] OTHER -> Thrown(st, illegalInstrTrap(st))

\* the catch block of instrExecute
CatchInExecute(st, t) ==
    [st EXCEPT !.c[CTL_REG_IPSR] = t.instrAdr,
               !.c[CTL_REG_IINSTR] = t.arg0,
               !.c[CTL_REG_IARG_0] = t.arg0,
               !.c[CTL_REG_IARG_1] = t.arg1]

\* the outcomes of instrExecute: the state it leaves, the trap it caught (or
\* NoTrap) and the handler it called
instrExecute(st, instr) ==
    LET name == HandlerOfKey(DispatchKey(instr))
    IN  { [st |-> IF o.trap = NoTrap THEN o.st ELSE CatchInExecute(o.st, o.trap),
           trap |-> o.trap, handler |-> name, at |-> "exec"]
          : o \in RunHandler(name, st, instr) }

\* the catch block of step: nothing is done with a trap thrown by instrRead
CatchInStep(st, t) == st

\* the outcomes of step, word being the content of memory at the IA
step(st, word) ==
    LET rd == instrRead(st, extractField64(st.psr, 0, 52), word)
    IN  IF rd.trap # NoTrap
        THEN { [st |-> CatchInStep(st, rd.trap), trap |-> rd.trap,
                handler |-> "none", at |-> "fetch"] }
        ELSE instrExecute([st EXCEPT !.instrReg = rd.instr], rd.instr)

\* -------------------------------------------------------------------------
\* T64-InlineAsm.cpp: the encodings the one line assembler produces
\* -------------------------------------------------------------------------
\* an instruction template: group | opcode family | option field
InstrTemplate(opg, opf, opm) == [grp |-> opg, low |-> opf * Pow2(26) + opm * Pow2(19)]

isInRangeForInstrBitFieldS(val, bitLen) ==
    val <= Pow2(bitLen - 1) - 1 /\ val >= - Pow2(bitLen - 1)

\* the code setInstrCompareCondField deposits for a condition option
CompareCondCode(opt) ==
    CASE opt = "EQ" -> 0
      [] opt = "LT" -> 1
      [] opt = "GT" -> 2
      [] opt = "EV" -> 3
      [] opt = "NE" -> 4
      [] opt = "GE" -> 5
      [] opt = "LE" -> 6
      [] opt = "OD" -> 7

\* the option printCondField prints for a code
printCondField(cmpCode) ==
    CASE cmpCode = 0 -> "EQ"
      [] cmpCode = 1 -> "LT"
      [] cmpCode = 2 -> "GT"
      [] cmpCode = 3 -> "EV"
      [] cmpCode = 4 -> "NE"
      [] cmpCode = 5 -> "GE"
      [] cmpCode = 6 -> "LE"
      [] cmpCode = 7 -> "OD"
      [] OTHER -> "**"

\* parseModeTypeInstr, "op R, B, n": ALU group, bit 19 set, imm15 = n
parseModeTypeInstrNum(opf, r, b, n) ==
    depositInstrField(
        depositInstrRegB(
            depositInstrBit(depositInstrRegR(InstrTemplate(OPC_GRP_ALU, opf, 0), r), 19, TRUE),
            b),
        0, 15, n)

\* parseModeTypeInstr, "op R, B, A": ALU group, register form
parseModeTypeInstrGreg(opf, r, b, a) ==
    depositInstrRegA(
        depositInstrRegB(depositInstrRegR(InstrTemplate(OPC_GRP_ALU, opf, 0), r), b), a)

\* parseInstrXBR, "xBR.cond R, B, ofs": the offset is stored divided by 4
parseInstrXBR(opf, cond, r, b, ofs) ==
    depositInstrField(
        depositInstrRegB(
            depositInstrRegR(
                depositInstrField(InstrTemplate(OPC_GRP_BR, opf, 0), 19, 3,
                                  CompareCondCode(cond)),
                r),
            b),
        0, 15, ofs \div 4)

\* parseMemOp, "LD R, ofs(B)" with the default data width D
parseMemOpNum(opf, opm, r, ofs, b) ==
    depositInstrRegB(
        depositInstrField(
            depositInstrBit(
                depositInstrRegR(
                    depositInstrField(InstrTemplate(OPC_GRP_MEM, opf, opm), 13, 2, 3), r),
                19, FALSE),
            0, 13, ofs \div 8),
        b)

\* parseModeTypeInstr, "op.dw R, ofs(B)": MEM group, the offset is stored
\* shifted right by the data width field
parseModeTypeInstrOfs(opf, dw, r, ofs, b) ==
    depositInstrRegB(
        depositInstrField(
            depositInstrField(depositInstrRegR(InstrTemplate(OPC_GRP_MEM, opf, 0), r),
                              13, 2, dw),
            0, 13, ofs \div Pow2(dw)),
        b)

\* parseModeTypeInstr, "op.dw R, A(B)": MEM group, bit 19 marks the index
\* register
parseModeTypeInstrIdx(opf, dw, r, a, b) ==
    depositInstrRegB(
        depositInstrRegA(
            depositInstrField(
                depositInstrBit(depositInstrRegR(InstrTemplate(OPC_GRP_MEM, opf, 0), r),
                                19, TRUE),
                13, 2, dw),
            a),
        b)

\* parseMemOp, "LD.dw R, ofs(B)" and "LD.dw.U R, ofs(B)": the option U sets
\* bit 20
parseMemOpOfs(opf, dw, u, r, ofs, b) ==
    depositInstrRegB(
        depositInstrField(
            depositInstrBit(
                depositInstrBit(
                    depositInstrRegR(
                        depositInstrField(InstrTemplate(OPC_GRP_MEM, opf, 0), 13, 2, dw), r),
                    20, u),
                19, FALSE),
            0, 13, ofs \div Pow2(dw)),
        b)

\* parseInstrBB, "BB.T R, pos, ofs", "BB.F R, pos, ofs" and the forms with
\* SAR (control register 2) for pos: bit 19 is the option T, bit 20 the SAR
\* form, the position goes to bits 18..13, the offset divided by 4 to imm13
parseInstrBB(t, r, pos, sar, ofs) ==
    depositInstrField(
        IF sar
        THEN depositInstrBit(
                 depositInstrRegR(depositInstrBit(InstrTemplate(OPC_GRP_BR, OPC_BB, 0), 19, t), r),
                 20, TRUE)
        ELSE depositInstrField(
                 depositInstrRegR(depositInstrBit(InstrTemplate(OPC_GRP_BR, OPC_BB, 0), 19, t), r),
                 13, 6, pos),
        0, 13, ofs \div 4)

\* parseInstrImmOp, "LDIL.M R, imm20" and "LDIL.U R, imm20": the mode goes to
\* bits 21..20
parseInstrImmOpWord(mode, r, val) ==
    depositInstrField(
        depositInstrRegR(depositInstrField(InstrTemplate(OPC_GRP_ALU, OPC_IMMOP, 0), 20, 2, mode),
                         r),
        0, 20, val)

\* AsmTokTab: the templates of the cache operations
CacheOpCodes ==
    [ PICA |-> InstrTemplate(OPC_GRP_SYS, OPC_CA, 0),
      PDCA |-> InstrTemplate(OPC_GRP_SYS, OPC_CA, 1),
      FICA |-> InstrTemplate(OPC_GRP_SYS, OPC_CA, 2),
      FDCA |-> InstrTemplate(OPC_GRP_SYS, OPC_CA, 3) ]

\* parseInstrPurgeCache and parseInstrFlushCache, "PICA R, A(B)"
parseInstrCacheOp(name, r, a, b) ==
    depositInstrRegB(depositInstrRegA(depositInstrRegR(CacheOpCodes[name], r), a), b)

\* parseNopInstr and parseInstrRFI: the template is the instruction
parseNopInstr == InstrTemplate(OPC_GRP_ALU, OPC_NOP, 0)

parseInstrRFI == InstrTemplate(OPC_GRP_SYS, OPC_RFI, 0)

\* parseInstrMTCR, "MTCR B, C, R": the control register number goes to bits 5..0
parseInstrMTCR(b, creg, r) ==
    depositInstrRegR(
        depositInstrField(depositInstrRegB(InstrTemplate(OPC_GRP_SYS, OPC_MR, 1), b),
                          0, 6, creg),
        r)

\* parseInstrInsertTlb, "IITLB R, B, A" (opm 0) and "IDTLB R, B, A" (opm 1)
parseInstrInsertTlb(opm, r, b, a) ==
    depositInstrRegA(
        depositInstrRegB(depositInstrRegR(InstrTemplate(OPC_GRP_SYS, OPC_TLB, opm), r), b), a)

\* parseInstrSregOp, "RSM R, val" (opm 0) and "SSM R, val" (opm 1)
parseInstrSregOp(opm, r, val) ==
    depositInstrField(depositInstrRegR(InstrTemplate(OPC_GRP_SYS, OPC_MST, opm), r),
                      0, 8, val)

\* -------------------------------------------------------------------------
\* The inputs of the model
\* -------------------------------------------------------------------------
\* bounds on the number of register/TLB set calls and of executed instructions
MaxSets == 2

MaxSteps == 2

\* register indices passed to setGeneralReg; 16 aliases gRegFile[ 0 ]
GRegIndices == {0, 1, 2, 16}

GRegValues == { ToWord(5), INT64_MAX }

\* the virtual address 0x1.0000.0100
VirtAdr == <<256, 0, 1, 0>>

\* the arguments of setGeneralReg: every index with every value, and R1 with
\* the virtual address
GRegInputs == (GRegIndices \X GRegValues) \cup { <<1, VirtAdr>> }

\* PSR values: X bit set with IA 0x100, IA 0x100 without the X bit, X bit
\* with IA 0x102, X bit with the virtual IA 0x1.0000.0100, IA 0x102 without
\* the X bit
PsrValues ==
    { <<256, 0, 0, 8192>>, <<256, 0, 0, 0>>, <<258, 0, 0, 8192>>, <<256, 0, 1, 8192>>,
      <<258, 0, 0, 0>> }

IvaValue == <<8192, 0, 0, 8192>>

CRegInputs == { <<CTL_REG_IVA, IvaValue>> }

ITlbInputs == { << <<256, 0, 1, 0>>, <<4096, 0, 0, 0>> >> }

CondOptions == {"EQ", "LT", "GE"}

BranchOffsets == {32}

\* the operands R, B, n and R, B, A of the ADD lines assembled: R0 as target
\* and as operand, both forms
AddImmOperands == { <<2, 1, 7>>, <<2, 1, 1>>, <<0, 1, 7>>, <<2, 0, 7>>, <<2, 1, -1>> }

AddRegOperands == { <<2, 1, 1>>, <<1, 0, 2>> }

\* the ADD words, and an ADD word with the undefined option 2
AddWords ==
    { parseModeTypeInstrNum(OPC_ADD, t[1], t[2], t[3]) : t \in AddImmOperands }
    \cup { parseModeTypeInstrGreg(OPC_ADD, t[1], t[2], t[3]) : t \in AddRegOperands }
    \cup { depositInstrField(parseModeTypeInstrGreg(OPC_ADD, 2, 1, 1), 19, 3, 2) }

CbrWords ==
    { parseInstrXBR(OPC_CBR, cond, 1, 2, ofs) : cond \in CondOptions, ofs \in BranchOffsets }

AbrWords ==
    { parseInstrXBR(OPC_ABR, cond, 1, 2, 32) : cond \in {"EV", "EQ"} }

MbrWords ==
    { parseInstrXBR(OPC_MBR, cond, 2, 1, 32) : cond \in {"OD"} }

MemWords ==
    { parseMemOpNum(OPC_LD, 0, 2, 0, 1), parseMemOpNum(OPC_ST, 1, 2, 0, 1),
      parseMemOpNum(OPC_ST, 1, 2, 4096, 0),
      parseMemOpNum(OPC_LDR, 0, 2, 0, 1), parseMemOpNum(OPC_STC, 1, 2, 0, 1) }

\* RFI, MTCR R1,C11,R1, IDTLB R0,R1,R2 and RSM R2,1
SysWords ==
    { parseInstrRFI, parseInstrMTCR(1, CTL_REG_IVA, 1), parseInstrInsertTlb(1, 0, 1, 2),
      parseInstrSregOp(0, 2, 1) }

\* one BR group word with R2, R1 for each of the sixteen opcodes
OpCodeWords ==
    { depositInstrRegB(depositInstrRegR(InstrTemplate(OPC_GRP_BR, opc, 0), 2), 1) :
          opc \in 0 .. 15 }

\* the words instruction memory can hold at the fetched address
InstrSet ==
    AddWords
    \cup OpCodeWords
    \cup { parseInstrXBR(OPC_CBR, "EQ", 1, 2, 32), parseMemOpNum(OPC_LD, 0, 2, 0, 1),
           parseInstrRFI, parseNopInstr, InstrTemplate(OPC_GRP_ALU, 12, 0) }

\* the family a word belongs to by its group and opcode: the key the case
\* labels of instrExecute are written with
FamilyKey(instr) == extractInstrOpGroup(instr) * 16 + extractInstrOpCode(instr)

\* the words a handler is called with directly
HandlerWords ==
    AddWords \cup CbrWords \cup AbrWords \cup MbrWords \cup MemWords \cup SysWords

\* -------------------------------------------------------------------------
\* The inputs of the handlers called on a machine with registers R1, R2 and
\* R3, the shift amount register and eight bytes of memory set up
\* -------------------------------------------------------------------------
\* a bit pattern with bit 63, bit 35 and bit 3 set and bit 0 clear
BitPattern == <<65288, 4660, 8, 32768>>

\* R1 holds 5 or the address of the eight bytes, R2 a small number, the
\* largest number or the pattern, R3 an index or a mask
ExecRegFiles ==
    { [i \in 0 .. (T64_MAX_GREGS - 1) |->
          CASE i = 1 -> r1 [] i = 2 -> r2 [] i = 3 -> r3 [] OTHER -> Zero] :
      r1 \in { ToWord(5), ToWord(MemBase) },
      r2 \in { ToWord(12), INT64_MAX, BitPattern },
      r3 \in { ToWord(1), ToWord(6) } }

\* the shift amount register: 3, and 35 with a bit above the low six bits
ExecShamts == { ToWord(3), ToWord(64 + 35) }

\* the eight bytes at MemBase, most significant byte of the word first
ExecMems ==
    { [a \in MemCells |-> 128 + (a - MemBase)],
      [a \in MemCells |-> IF a = MemBase + 3 THEN 255 ELSE 16 + (a - MemBase)] }

\* the PSR in privileged mode (X bit) at IA 0x100
ExecPsr == <<256, 0, 0, 8192>>

\* SUB R2, R1, 7 and SUB R2, R1, R3
SubWords ==
    { parseModeTypeInstrNum(OPC_SUB, 2, 1, 7), parseModeTypeInstrGreg(OPC_SUB, 2, 1, 3) }

\* the bit positions of BB, and its branch offsets
BbPositions == { 0, 3, 35, 63 }

BbOffsets == { 32, -16 }

\* BB.T and BB.F on R2 with a position, and with SAR
BbWords ==
    { parseInstrBB(t, 2, pos, FALSE, ofs) :
          t \in BOOLEAN, pos \in BbPositions, ofs \in BbOffsets }
    \cup { parseInstrBB(t, 2, 0, TRUE, ofs) : t \in BOOLEAN, ofs \in BbOffsets }

\* the imm20 values of LDIL: 0x12345 and 0xFFFFF
ImmValues == { 74565, 1048575 }

\* LDIL.M R2, imm20 and LDIL.U R2, imm20
LdilWords == { parseInstrImmOpWord(mode, 2, v) : mode \in { 2, 3 }, v \in ImmValues }

\* the data width fields of the loads shorter than a word: 1, 2 and 4 bytes
LdWidths == { 0, 1, 2 }

LdOffsets == { 0, 4 }

\* LD.B, LD.H and LD.W of R2 from ofs(R1), each with and without the option U
LdWords ==
    { parseMemOpOfs(OPC_LD, dw, u, 2, ofs, 1) :
          dw \in LdWidths, u \in BOOLEAN, ofs \in LdOffsets }

\* the opcodes of the MEM group with a memory operand; CMP is CMP_A in the
\* offset form and CMP_B in the indexed form
MemOpCodes == { OPC_ADD, OPC_SUB, OPC_AND, OPC_OR, OPC_XOR }

\* the offset forms: a double word at 0(R1) and a word at 4(R1)
MemOfsForms == { <<3, 0>>, <<2, 4>> }

\* the data width field of the indexed form: that of a word of 4 bytes
MemIdxWidth == CHOOSE dw \in 0 .. 3 : Pow2(dw) = 4

\* "op.dw R2, ofs(R1)" and "CMP.EQ.dw R2, ofs(R1)"
MemOfsWord(opf, f) == parseModeTypeInstrOfs(opf, f[1], 2, f[2], 1)

\* "op.W R2, R3(R1)"; for CMP the opcode CMP_B marks the form, bit 19 belongs
\* to the condition
MemIdxWord(opf) ==
    IF opf = OPC_CMP_B
    THEN depositInstrBit(parseModeTypeInstrIdx(opf, MemIdxWidth, 2, 3, 1), 19, FALSE)
    ELSE parseModeTypeInstrIdx(opf, MemIdxWidth, 2, 3, 1)

MemOpWords ==
    { MemOfsWord(opf, f) : opf \in MemOpCodes \cup { OPC_CMP_A }, f \in MemOfsForms }
    \cup { MemIdxWord(opf) : opf \in MemOpCodes \cup { OPC_CMP_B } }

\* the logical operations of the ALU group and their immediates
LogicOpCodes == { OPC_AND, OPC_OR, OPC_XOR }

LogicImms == { 7, -2 }

\* "op R2, R1, n" and "op R2, R1, R3"
LogicWords ==
    { parseModeTypeInstrNum(opf, 2, 1, n) : opf \in LogicOpCodes, n \in LogicImms }
    \cup { parseModeTypeInstrGreg(opf, 2, 1, 3) : opf \in LogicOpCodes }

CacheOpNames == { "PICA", "PDCA", "FICA", "FDCA" }

\* "PICA R2, R3(R1)" and the three others
CaWords == { parseInstrCacheOp(name, 2, 3, 1) : name \in CacheOpNames }

ExecWords ==
    SubWords \cup BbWords \cup LdilWords \cup LdWords \cup MemOpWords \cup LogicWords
    \cup CaWords

\* -------------------------------------------------------------------------
\* T64-InlineAsm.cpp: the one line assembler on the text of a line.  A line
\* is the sequence of its lexemes: a name, a register name "R%d" or "C%d"
\* with its number, a decimal number "%d", or one of the characters
\* . , ( ) + - ~ and ?.  The operators * / % & | ^ and the options of more
\* than one letter are outside this alphabet.
\* -------------------------------------------------------------------------
Id(s) == [s |-> s, n |-> 0]

Num(n) == [s |-> "%d", n |-> n]

GR(n) == [s |-> "R%d", n |-> n]

CR(n) == [s |-> "C%d", n |-> n]

\* the error ids of the assembler
ErrId ==
    [ NO_ERR |-> 0,
      ERR_EXTRA_TOKEN_IN_STR |-> 10,
      ERR_INVALID_CHAR_IN_IDENT |-> 11,
      ERR_INVALID_EXPR |-> 12,
      ERR_INVALID_OP_CODE |-> 14,
      ERR_INVALID_OFS |-> 16,
      ERR_INVALID_INSTR_OPT |-> 17,
      ERR_EXPECTED_NUMERIC |-> 21,
      ERR_EXPECTED_COMMA |-> 22,
      ERR_EXPECTED_LPAREN |-> 23,
      ERR_EXPECTED_RPAREN |-> 24,
      ERR_EXPECTED_OPCODE |-> 26,
      ERR_EXPECTED_INSTR_OPT |-> 27,
      ERR_EXPECTED_GENERAL_REG |-> 29,
      ERR_EXPECTED_CONTROL_REG |-> 34,
      ERR_EXPR_TYPE_MATCH |-> 40,
      ERR_IMM_VAL_RANGE |-> 42,
      ERR_DUPLICATE_INSTR_OPT |-> 43 ]

NO_ERR == ErrId.NO_ERR

\* the opcode mnemonics of AsmTokTab that the model reads, with their
\* instruction templates
AsmTokTab ==
    [ NOP |-> InstrTemplate(OPC_GRP_ALU, OPC_NOP, 0),
      SHL1A |-> InstrTemplate(OPC_GRP_ALU, OPC_SHAOP, 0),
      SHL2A |-> InstrTemplate(OPC_GRP_ALU, OPC_SHAOP, 0),
      SHL3A |-> InstrTemplate(OPC_GRP_ALU, OPC_SHAOP, 0),
      SHR1A |-> InstrTemplate(OPC_GRP_ALU, OPC_SHAOP, 2),
      SHR2A |-> InstrTemplate(OPC_GRP_ALU, OPC_SHAOP, 2),
      SHR3A |-> InstrTemplate(OPC_GRP_ALU, OPC_SHAOP, 2),
      LDIL |-> InstrTemplate(OPC_GRP_ALU, OPC_IMMOP, 0),
      ADDIL |-> InstrTemplate(OPC_GRP_ALU, OPC_IMMOP, 0),
      BE |-> InstrTemplate(OPC_GRP_BR, OPC_BE, 0),
      BR |-> InstrTemplate(OPC_GRP_BR, OPC_BR, 0),
      BV |-> InstrTemplate(OPC_GRP_BR, OPC_BV, 0),
      MFCR |-> InstrTemplate(OPC_GRP_SYS, OPC_MR, 0),
      MTCR |-> InstrTemplate(OPC_GRP_SYS, OPC_MR, 1),
      MFIA |-> InstrTemplate(OPC_GRP_SYS, OPC_MR, 2),
      RFI |-> InstrTemplate(OPC_GRP_SYS, OPC_RFI, 0) ]

Tok(typ, tid, val, name) == [typ |-> typ, tid |-> tid, val |-> val, name |-> name]

NilToken == Tok("TYP_NIL", "TOK_NIL", 0, "")

EosToken == Tok("TYP_NIL", "TOK_EOS", 0, "")

\* the mnemonics of AsmTokTab
AsmOpCodes ==
    { "NOP", "SHL1A", "SHL2A", "SHL3A", "SHR1A", "SHR2A", "SHR3A", "LDIL", "ADDIL",
      "BE", "BR", "BV", "MFCR", "MTCR", "MFIA", "RFI" }

\* the token nextToken makes of a lexeme: parseNum, parseIdent with
\* lookupToken, and the single characters; a text the disassembler starts
\* with "*" begins with the token of that character
lookupToken(l) ==
    CASE l.s = "%d" -> Tok("TYP_NUM", "TOK_NUM", l.n, "")
      [] l.s = "R%d" /\ l.n <= 15 -> Tok("TYP_GREG", "TOK_GR", l.n, "")
      [] l.s = "C%d" /\ l.n <= 15 -> Tok("TYP_CREG", "TOK_CR", l.n, "")
      [] l.s = "T%d" /\ l.n <= 6 -> Tok("TYP_GREG", "TOK_GR", l.n + 1, "")
      [] l.s \in AsmOpCodes -> Tok("TYP_OP_CODE", l.s, 0, l.s)
      [] l.s = "." -> Tok("TYP_SYM", "TOK_PERIOD", 0, "")
      [] l.s = "," -> Tok("TYP_SYM", "TOK_COMMA", 0, "")
      [] l.s = "(" -> Tok("TYP_SYM", "TOK_LPAREN", 0, "")
      [] l.s = ")" -> Tok("TYP_SYM", "TOK_RPAREN", 0, "")
      [] l.s = "-" -> Tok("TYP_SYM", "TOK_MINUS", 0, "")
      [] l.s = "~" -> Tok("TYP_SYM", "TOK_NEG", 0, "")
      [] l.s = "+" -> Tok("TYP_NIL", "TOK_PLUS", 0, "")
      [] l.s \in { "**", "**SHAOP**", "**MROP**", "**OPC**" } -> Tok("TYP_SYM", "TOK_MULT", 0, "")
      [] OTHER -> Tok("TYP_IDENT", "TOK_IDENT", 0, l.s)

\* the state of the parser: the text not yet read, the current token, the
\* word under construction, the expression and options last parsed, the
\* error thrown, and whether the call stack ran out
AsmStart(line) ==
    [toks |-> line, tok |-> NilToken, instr |-> NoInstr,
     expr |-> [typ |-> "TYP_NIL", val |-> 0], flags |-> {},
     err |-> NO_ERR, crash |-> FALSE]

AsmOk(p) == p.err = NO_ERR /\ ~ p.crash

\* throw ( e ): the first error thrown ends the parse
Throw(p, e) == IF AsmOk(p) THEN [p EXCEPT !.err = e] ELSE p

nextToken(p) ==
    IF ~ AsmOk(p) THEN p
    ELSE IF p.toks = << >> THEN [p EXCEPT !.tok = EosToken]
    ELSE IF Head(p.toks).s = "?" THEN [p EXCEPT !.err = ErrId.ERR_INVALID_CHAR_IN_IDENT]
    ELSE [p EXCEPT !.tok = lookupToken(Head(p.toks)), !.toks = Tail(p.toks)]

isToken(p, tid) == p.tok.tid = tid

isTokenTyp(p, typ) == p.tok.typ = typ

acceptEOS(p) ==
    IF ~ AsmOk(p) \/ isToken(p, "TOK_EOS") THEN p
    ELSE [p EXCEPT !.err = ErrId.ERR_EXTRA_TOKEN_IN_STR]

\* acceptComma, acceptLparen and acceptRparen: the symbol is there and is
\* passed, or the error of the symbol is thrown
acceptSymbol(p, tid, e) ==
    IF ~ AsmOk(p) THEN p
    ELSE IF isToken(p, tid) THEN nextToken(p)
    ELSE [p EXCEPT !.err = e]

acceptComma(p) == acceptSymbol(p, "TOK_COMMA", ErrId.ERR_EXPECTED_COMMA)

acceptLparen(p) == acceptSymbol(p, "TOK_LPAREN", ErrId.ERR_EXPECTED_LPAREN)

acceptRparen(p) == acceptSymbol(p, "TOK_RPAREN", ErrId.ERR_EXPECTED_RPAREN)

\* the depth of the call stack the parser may use
MaxCallDepth == 6

SetExpr(p, typ, val) == [p EXCEPT !.expr = [typ |-> typ, val |-> val]]

\* rExpr -> val = ~ rExpr -> val, once the operand is parsed
NegateExpr(q) ==
    IF AsmOk(q) THEN [q EXCEPT !.expr.val = - q.expr.val - 1] ELSE q

RECURSIVE parseFactor(_, _)
RECURSIVE parseExpr(_, _)
\* parseFactor; the branch of "~" calls parseFactor on the same token
parseFactor(p, depth) ==
    IF ~ AsmOk(p) THEN p
    ELSE IF depth > MaxCallDepth THEN [p EXCEPT !.crash = TRUE]
    ELSE IF isToken(p, "TOK_NUM") \/ isTokenTyp(p, "TYP_GREG") \/ isTokenTyp(p, "TYP_CREG")
    THEN nextToken(SetExpr(p, p.tok.typ, p.tok.val))
    ELSE IF isToken(p, "TOK_NEG")
    THEN NegateExpr(parseFactor(SetExpr(p, "TYP_NIL", 0), depth + 1))
    ELSE IF isToken(p, "TOK_LPAREN")
    THEN acceptRparen(parseExpr(nextToken(SetExpr(p, "TYP_NIL", 0)), depth + 1))
    ELSE [p EXCEPT !.err = ErrId.ERR_INVALID_EXPR]

\* parseTerm: the loop on * / % and & finds none of them in a line
parseTerm(p, depth) == parseFactor(p, depth + 1)

\* addOp and subOp on the left and the right operand; the numbers of a line
\* are far from the overflow of 64 bits
RECURSIVE parseExprLoop(_, _)
ExprLoopStep(p, q, depth) ==
    IF ~ AsmOk(q) THEN q
    ELSE IF p.expr.typ # q.expr.typ THEN [q EXCEPT !.err = ErrId.ERR_EXPR_TYPE_MATCH]
    ELSE IF p.expr.typ # "TYP_NUM" THEN [q EXCEPT !.err = ErrId.ERR_EXPECTED_NUMERIC]
    ELSE parseExprLoop(
             SetExpr(q, "TYP_NUM",
                     IF isToken(p, "TOK_PLUS") THEN p.expr.val + q.expr.val
                     ELSE p.expr.val - q.expr.val),
             depth)

\* the loop of parseExpr on + and -
parseExprLoop(p, depth) ==
    IF ~ AsmOk(p) THEN p
    ELSE IF ~ (isToken(p, "TOK_PLUS") \/ isToken(p, "TOK_MINUS")) THEN p
    ELSE ExprLoopStep(p, parseTerm(nextToken(p), depth), depth)

\* the first term of an expression that starts with a sign
ExprSigned(minus, q, depth) ==
    IF ~ AsmOk(q) THEN q
    ELSE IF q.expr.typ # "TYP_NUM" THEN [q EXCEPT !.err = ErrId.ERR_EXPECTED_NUMERIC]
    ELSE parseExprLoop(SetExpr(q, "TYP_NUM", IF minus THEN - q.expr.val ELSE q.expr.val),
                       depth)

parseExpr(p, depth) ==
    IF ~ AsmOk(p) THEN p
    ELSE IF isToken(p, "TOK_PLUS") \/ isToken(p, "TOK_MINUS")
    THEN ExprSigned(isToken(p, "TOK_MINUS"), parseTerm(nextToken(p), depth), depth)
    ELSE parseExprLoop(parseTerm(p, depth), depth)

\* an expression parsed into a fresh Expr
ParseNewExpr(p) == parseExpr(SetExpr(p, "TYP_NIL", 0), 0)

Deposit(p, bitpos, len, value) ==
    IF AsmOk(p) THEN [p EXCEPT !.instr = depositInstrField(p.instr, bitpos, len, value)]
    ELSE p

depositInstrFieldS(p, bitpos, len, value) ==
    IF ~ AsmOk(p) THEN p
    ELSE IF isInRangeForInstrBitFieldS(value, len)
    THEN [p EXCEPT !.instr = depositInstrField(p.instr, bitpos, len, value)]
    ELSE [p EXCEPT !.err = ErrId.ERR_IMM_VAL_RANGE]

\* the value is converted to uint32_t: a negative number of the line is above
\* every field's maximum
isInRangeForInstrBitFieldU(val, bitLen) == val >= 0 /\ val <= Pow2(bitLen) - 1

depositInstrFieldU(p, bitpos, len, value) ==
    IF ~ AsmOk(p) THEN p
    ELSE IF isInRangeForInstrBitFieldU(value, len)
    THEN [p EXCEPT !.instr = depositInstrField(p.instr, bitpos, len, value)]
    ELSE [p EXCEPT !.err = ErrId.ERR_IMM_VAL_RANGE]

depositInstrImm13(p, val) == depositInstrFieldS(p, 0, 13, val)

depositInstrImm15(p, val) == depositInstrFieldS(p, 0, 15, val)

depositInstrImm20U(p, val) == depositInstrFieldU(p, 0, 20, val)

\* the expression of acceptRegR, acceptRegA and acceptRegB must be a general
\* register, which goes to the field of the register
depositInstrReg(q, bitpos) ==
    IF ~ AsmOk(q) THEN q
    ELSE IF q.expr.typ = "TYP_GREG"
    THEN [q EXCEPT !.instr = depositInstrField(q.instr, bitpos, 4, q.expr.val)]
    ELSE [q EXCEPT !.err = ErrId.ERR_EXPECTED_GENERAL_REG]

acceptReg(p, bitpos) == depositInstrReg(ParseNewExpr(p), bitpos)

acceptRegR(p) == acceptReg(p, 22)

acceptRegA(p) == acceptReg(p, 9)

acceptRegB(p) == acceptReg(p, 15)

\* the options of a comparison
CmpOptions == { "EQ", "LT", "NE", "GE", "GT", "LE", "OD", "EV" }

\* the letters the option loop knows; "R" is not among them
OptionLetters ==
    { "A", "B", "C", "D", "F", "G", "H", "I", "L", "M", "N", "Q", "S", "T", "U", "W", "Z" }

\* the options an opcode may carry (IM_*)
AllowedOptions(instrOpToken) ==
    CASE instrOpToken \in { "SHL1A", "SHL2A", "SHL3A", "SHR1A", "SHR2A", "SHR3A" } -> { "I" }
      [] instrOpToken = "LDIL" -> { "L", "M", "U" }
      [] instrOpToken \in { "BR", "BV" } -> { "W", "D", "Q" }
      [] instrOpToken = "MFIA" -> { "A", "L", "R" }
      [] OTHER -> {}

\* the loop of parseInstrOptions over ".<opt>": the option after the period
RECURSIVE parseInstrOptionsLoop(_)
InstrOption(q) ==
    IF ~ AsmOk(q) THEN q
    ELSE IF ~ isToken(q, "TOK_IDENT") THEN [q EXCEPT !.err = ErrId.ERR_EXPECTED_INSTR_OPT]
    ELSE IF q.tok.name \in CmpOptions \cup OptionLetters
    THEN parseInstrOptionsLoop(nextToken([q EXCEPT !.flags = @ \cup { q.tok.name }]))
    ELSE [q EXCEPT !.err = ErrId.ERR_INVALID_INSTR_OPT]

parseInstrOptionsLoop(p) ==
    IF ~ AsmOk(p) \/ ~ isToken(p, "TOK_PERIOD") THEN p
    ELSE InstrOption(nextToken(p))

MoreThanOne(flags, group) == Cardinality(flags \cap group) > 1

\* the checks of parseInstrOptions once the options are read
CheckOptions(q, instrOpToken) ==
    IF ~ AsmOk(q) THEN q
    ELSE IF \/ MoreThanOne(q.flags, { "W", "D", "Q" })
            \/ MoreThanOne(q.flags, { "B", "H", "W", "D" })
            \/ MoreThanOne(q.flags, CmpOptions)
            \/ MoreThanOne(q.flags, { "T", "F" })
            \/ MoreThanOne(q.flags, { "L", "M", "U" })
    THEN [q EXCEPT !.err = ErrId.ERR_DUPLICATE_INSTR_OPT]
    ELSE IF q.flags \ AllowedOptions(instrOpToken) # {}
    THEN [q EXCEPT !.err = ErrId.ERR_INVALID_INSTR_OPT]
    ELSE q

parseInstrOptions(p, instrOpToken) ==
    CheckOptions(parseInstrOptionsLoop([p EXCEPT !.flags = {}]), instrOpToken)

\* parseNopInstr and parseInstrRFI on the text: nothing may follow
parseNoOperands(p) == acceptEOS(nextToken(p))

\* the shift amount the mnemonic names
ShiftAmountOf(instrOpToken) ==
    CASE instrOpToken \in { "SHL1A", "SHR1A" } -> 1
      [] instrOpToken \in { "SHL2A", "SHR2A" } -> 2
      [] OTHER -> 3

\* the third operand of SHLxA and SHRxA: a register, or a number
ShiftOperand(q, regOpt, numOpt) ==
    IF ~ AsmOk(q) THEN q
    ELSE IF q.expr.typ = "TYP_GREG"
    THEN acceptEOS(Deposit(Deposit(q, 19, 3, regOpt), 9, 4, q.expr.val))
    ELSE IF q.expr.typ = "TYP_NUM"
    THEN acceptEOS(depositInstrImm13(Deposit(q, 19, 3, numOpt), q.expr.val))
    ELSE [q EXCEPT !.err = ErrId.ERR_EXPECTED_GENERAL_REG]

\* parseInstrSHLxA (regOpt 0, numOpt 1) and parseInstrSHRxA (regOpt 2, numOpt 3)
parseInstrSHxA(p, instrOpToken, regOpt, numOpt) ==
    ShiftOperand(
        ParseNewExpr(
            acceptComma(acceptRegB(acceptComma(acceptRegR(
                Deposit(parseInstrOptions(nextToken(p), instrOpToken),
                        13, 2, ShiftAmountOf(instrOpToken))))))),
        regOpt, numOpt)

parseInstrSHLxA(p, instrOpToken) == parseInstrSHxA(p, instrOpToken, 0, 1)

parseInstrSHRxA(p, instrOpToken) == parseInstrSHxA(p, instrOpToken, 2, 3)

\* the mode of LDIL: .L and no option 1, .M 2, .U 3
ImmOpMode(opts) ==
    depositInstrFieldU(opts, 20, 2,
        IF "L" \in opts.flags THEN 1
        ELSE IF "M" \in opts.flags THEN 2
        ELSE IF "U" \in opts.flags THEN 3
        ELSE 1)

\* the value of LDIL and ADDIL
ImmOpValue(q) ==
    IF ~ AsmOk(q) THEN q
    ELSE IF q.expr.typ = "TYP_NUM" THEN acceptEOS(depositInstrImm20U(q, q.expr.val))
    ELSE [q EXCEPT !.err = ErrId.ERR_EXPECTED_NUMERIC]

\* parseInstrImmOp, for LDIL and ADDIL
parseInstrImmOp(p, instrOpToken) ==
    ImmOpValue(ParseNewExpr(acceptComma(acceptRegR(
        ImmOpMode(parseInstrOptions(nextToken(p), instrOpToken))))))

\* the end of a branch: "," RegR, or nothing
BranchLink(p) ==
    IF ~ AsmOk(p) THEN p
    ELSE IF isToken(p, "TOK_COMMA") THEN acceptEOS(acceptRegR(nextToken(p)))
    ELSE IF ~ isToken(p, "TOK_EOS") THEN [p EXCEPT !.err = ErrId.ERR_EXPECTED_COMMA]
    ELSE p

\* the operand of BE: an offset and "(" RegB ")", or a register; the offset
\* is converted to uint32_t before it is shifted, so a negative one is out of
\* the range of the field
BranchTarget(q) ==
    IF ~ AsmOk(q) THEN q
    ELSE IF q.expr.typ = "TYP_NUM"
    THEN IF ~ isAlignedOfs(q.expr.val, 4) THEN [q EXCEPT !.err = ErrId.ERR_INVALID_OFS]
         ELSE IF q.expr.val < 0 THEN [q EXCEPT !.err = ErrId.ERR_IMM_VAL_RANGE]
         ELSE acceptRparen(acceptRegB(acceptLparen(depositInstrImm15(q, q.expr.val \div 4))))
    ELSE IF q.expr.typ = "TYP_GREG" THEN Deposit(q, 15, 4, q.expr.val)
    ELSE q

parseInstrBETok(p) == BranchLink(BranchTarget(ParseNewExpr(nextToken(p))))

\* the width option of BR and BV
BranchWidth(opts) ==
    Deposit(opts, 13, 2,
        IF "W" \in opts.flags THEN 0
        ELSE IF "D" \in opts.flags THEN 1
        ELSE IF "Q" \in opts.flags THEN 2
        ELSE 0)

parseInstrBRTok(p, instrOpToken) ==
    BranchLink(acceptRegB(BranchWidth(parseInstrOptions(nextToken(p), instrOpToken))))

\* the operands of BV: RegA if the line goes on with a register, then RegB
\* in an expression
VectorIndex(w) ==
    IF AsmOk(w) /\ isTokenTyp(w, "TYP_GREG") THEN acceptRegA(w) ELSE w

VectorBase(q) ==
    IF ~ AsmOk(q) THEN q
    ELSE IF q.expr.typ = "TYP_GREG" THEN BranchLink(Deposit(q, 15, 4, q.expr.val))
    ELSE [q EXCEPT !.err = ErrId.ERR_EXPECTED_LPAREN]

parseInstrBVTok(p, instrOpToken) ==
    VectorBase(ParseNewExpr(VectorIndex(
        BranchWidth(parseInstrOptions(nextToken(p), instrOpToken)))))

\* the control register of MFCR and MTCR goes to the bits 5..0
ControlReg(q) ==
    IF ~ AsmOk(q) THEN q
    ELSE IF q.expr.typ = "TYP_CREG" THEN Deposit(q, 0, 6, q.expr.val)
    ELSE [q EXCEPT !.err = ErrId.ERR_EXPECTED_CONTROL_REG]

\* parseInstrMFCR: RegB "," control register
parseInstrMFCRTok(p) ==
    acceptEOS(ControlReg(ParseNewExpr(acceptComma(acceptRegB(nextToken(p))))))

\* the end of MTCR: "," RegR, or nothing
OptionalRegR(d) ==
    IF AsmOk(d) /\ isToken(d, "TOK_COMMA") THEN acceptRegR(nextToken(d)) ELSE d

\* parseInstrMTCR: RegB "," control register [ "," RegR ]
parseInstrMTCRTok(p) ==
    acceptEOS(OptionalRegR(ControlReg(ParseNewExpr(acceptComma(acceptRegB(nextToken(p)))))))

\* the mode of MFIA in the bits 20..19
MfiaMode(opts) ==
    depositInstrFieldU(opts, 19, 2,
        IF "A" \in opts.flags THEN 0
        ELSE IF "L" \in opts.flags THEN 1
        ELSE IF "R" \in opts.flags THEN 2
        ELSE 0)

\* parseInstrMFIA: the token after the options is skipped
parseInstrMFIATok(p, instrOpToken) ==
    acceptEOS(acceptRegR(nextToken(MfiaMode(parseInstrOptions(nextToken(p), instrOpToken)))))

\* the parse function of the opcode, on a word that starts as the template
ParseOperands(p, instrOpToken) ==
    CASE instrOpToken \in { "NOP", "RFI" } -> parseNoOperands(p)
      [] instrOpToken \in { "SHL1A", "SHL2A", "SHL3A" } -> parseInstrSHLxA(p, instrOpToken)
      [] instrOpToken \in { "SHR1A", "SHR2A", "SHR3A" } -> parseInstrSHRxA(p, instrOpToken)
      [] instrOpToken \in { "LDIL", "ADDIL" } -> parseInstrImmOp(p, instrOpToken)
      [] instrOpToken = "BE" -> parseInstrBETok(p)
      [] instrOpToken = "BR" -> parseInstrBRTok(p, instrOpToken)
      [] instrOpToken = "BV" -> parseInstrBVTok(p, instrOpToken)
      [] instrOpToken = "MFCR" -> parseInstrMFCRTok(p)
      [] instrOpToken = "MTCR" -> parseInstrMTCRTok(p)
      [] instrOpToken = "MFIA" -> parseInstrMFIATok(p, instrOpToken)
      [] OTHER -> [p EXCEPT !.err = ErrId.ERR_INVALID_OP_CODE]

\* the first token of a line must be an opcode
FirstToken(p0) ==
    IF ~ AsmOk(p0) THEN p0
    ELSE IF ~ isTokenTyp(p0, "TYP_OP_CODE")
    THEN [p0 EXCEPT !.err = ErrId.ERR_EXPECTED_OPCODE]
    ELSE ParseOperands([p0 EXCEPT !.instr = AsmTokTab[p0.tok.tid]], p0.tok.tid)

\* parseLine: the value of the opcode's token is the word to start with
parseLine(line) == FirstToken(nextToken(AsmStart(line)))

\* what assembleInstr hands back: an ErrId thrown by parseLine is caught and
\* returned, with the word set to 0; nothing catches the end of the stack
AsmReturn(p) ==
    IF p.crash THEN [ret |-> "crashed", err |-> NO_ERR, instr |-> NoInstr]
    ELSE IF p.err # NO_ERR THEN [ret |-> "returned", err |-> p.err, instr |-> NoInstr]
    ELSE [ret |-> "returned", err |-> NO_ERR, instr |-> p.instr]

\* T64Assemble::assembleInstr
assembleInstr(inputStr) == AsmReturn(parseLine(inputStr))

\* -------------------------------------------------------------------------
\* T64-InlineDisAsm.cpp: the text the disassembler prints for a word, as the
\* sequence of its lexemes
\* -------------------------------------------------------------------------
\* "%d" of a number
PrintInt(v) == IF v < 0 THEN << Id("-"), Num(- v) >> ELSE << Num(v) >>

Opt(name) == << Id("."), Id(name) >>

\* buildOpCodeStr, for the opcodes the assembler of the model produces
buildOpCodeStr(instr) ==
    LET opCode == FamilyKey(instr)
        opt == extractInstrFieldU(instr, 19, 3)
        sha == extractInstrFieldU(instr, 13, 2)
    IN  CASE opCode = OPC_GRP_ALU * 16 + OPC_NOP -> << Id("NOP") >>
          [] opCode \in { OPC_GRP_ALU * 16 + OPC_AND, OPC_GRP_ALU * 16 + OPC_OR } ->
                << Id(IF opCode = OPC_GRP_ALU * 16 + OPC_AND THEN "AND" ELSE "OR") >>
                \o (IF extractInstrBit(instr, 20) = 1 THEN Opt("C") ELSE << >>)
                \o (IF extractInstrBit(instr, 21) = 1 THEN Opt("N") ELSE << >>)
          [] opCode = OPC_GRP_ALU * 16 + OPC_XOR ->
                << Id("XOR") >>
                \o (IF extractInstrBit(instr, 20) = 1 THEN Opt("**") ELSE << >>)
                \o (IF extractInstrBit(instr, 21) = 1 THEN Opt("N") ELSE << >>)
          [] opCode = OPC_GRP_ALU * 16 + OPC_SHAOP ->
                IF opt \in { 0, 1 }
                THEN CASE sha = 1 -> << Id("SHL1A") >>
                       [] sha = 2 -> << Id("SHL2A") >>
                       [] sha = 3 -> << Id("SHL3A") >>
                       [] OTHER -> << Id("**SHAOP**") >>
                ELSE IF opt \in { 2, 3 }
                THEN CASE sha = 1 -> << Id("SHR1A") >>
                       [] sha = 2 -> << Id("SHR2A") >>
                       [] sha = 3 -> << Id("SHR3A") >>
                       [] OTHER -> << Id("**SHAOP**") >>
                ELSE << Id("**SHAOP**") >>
          [] opCode = OPC_GRP_ALU * 16 + OPC_IMMOP ->
                CASE extractInstrFieldU(instr, 20, 2) = 0 -> << Id("ADDIL") >>
                  [] extractInstrFieldU(instr, 20, 2) = 1 -> << Id("LDI") >> \o Opt("L")
                  [] extractInstrFieldU(instr, 20, 2) = 2 -> << Id("LDI") >> \o Opt("S")
                  [] OTHER -> << Id("LDI") >> \o Opt("U")
          [] opCode = OPC_GRP_BR * 16 + OPC_BE ->
                << Id("BE") >>
                \o (IF extractInstrFieldU(instr, 20, 2) # 0 THEN Opt("**") ELSE << >>)
                \o (IF extractInstrBit(instr, 19) = 1 THEN Opt("G") ELSE << >>)
          [] opCode \in { OPC_GRP_BR * 16 + OPC_BR, OPC_GRP_BR * 16 + OPC_BV } ->
                << Id("BR") >>
                \o (CASE sha = 0 -> Opt("W")
                      [] sha = 1 -> Opt("D")
                      [] sha = 2 -> Opt("Q")
                      [] OTHER -> Opt("**"))
          [] opCode = OPC_GRP_SYS * 16 + OPC_MR ->
                IF opt = 0 THEN << Id("MFCR") >>
                ELSE IF opt = 1 THEN << Id("MTCR") >>
                ELSE IF extractInstrBit(instr, 21) = 1 THEN << Id("MFIA") >>
                ELSE << Id("**MROP**") >>
          [] opCode = OPC_GRP_SYS * 16 + OPC_CA ->
                CASE opt = 0 -> << Id("PICA") >>
                  [] opt = 1 -> << Id("PDCA") >>
                  [] opt = 2 -> << Id("FICA") >>
                  [] opt = 3 -> << Id("FDCA") >>
                  [] OTHER -> << Id("**CA**") >>
          [] opCode = OPC_GRP_SYS * 16 + OPC_RFI -> << Id("RFI") >>
          [] OTHER -> << Id("**OPC**") >>

\* "(R%d)" of RegB, and ",R%d" of RegR when it is not R0
PrintBase(instr) == << Id("("), GR(extractInstrRegB(instr)), Id(")") >>

PrintLink(instr) ==
    IF extractInstrRegR(instr) # 0 THEN << Id(","), GR(extractInstrRegR(instr)) >> ELSE << >>

\* the operands of LPA, which the case of MR falls into when its option is
\* none of the three it prints
PrintLpaOperands(instr) ==
    << GR(extractInstrRegR(instr)), Id(",") >>
    \o (IF extractInstrRegA(instr) # 0 THEN << GR(extractInstrRegA(instr)) >> ELSE << >>)
    \o PrintBase(instr)

\* buildOperandStr, for the same opcodes
buildOperandStr(instr) ==
    LET opCode == FamilyKey(instr)
        opt == extractInstrFieldU(instr, 19, 3)
    IN  CASE opCode \in { OPC_GRP_ALU * 16 + OPC_ADD, OPC_GRP_ALU * 16 + OPC_SUB,
                           OPC_GRP_ALU * 16 + OPC_AND, OPC_GRP_ALU * 16 + OPC_OR,
                           OPC_GRP_ALU * 16 + OPC_XOR } ->
                << GR(extractInstrRegR(instr)), Id(","), GR(extractInstrRegB(instr)), Id(",") >>
                \o (IF extractInstrBit(instr, 19) = 1
                    THEN PrintInt(extractInstrSignedImm15(instr))
                    ELSE << GR(extractInstrRegA(instr)) >>)
          [] opCode = OPC_GRP_ALU * 16 + OPC_SHAOP ->
                << GR(extractInstrRegR(instr)), Id(","), GR(extractInstrRegB(instr)), Id(",") >>
                \o (IF extractInstrBit(instr, 19) = 1
                    THEN PrintInt(extractInstrSignedImm15(instr))
                    ELSE << GR(extractInstrRegA(instr)) >>)
          [] opCode = OPC_GRP_ALU * 16 + OPC_IMMOP ->
                << GR(extractInstrRegR(instr)), Id(",") >> \o PrintInt(extractInstrImm20(instr))
          [] opCode = OPC_GRP_BR * 16 + OPC_BE ->
                (IF extractInstrSignedImm15(instr) # 0
                 THEN PrintInt(extractInstrSignedImm15(instr) * 4) ELSE << >>)
                \o PrintBase(instr) \o PrintLink(instr)
          [] opCode = OPC_GRP_BR * 16 + OPC_BR ->
                << GR(extractInstrRegB(instr)) >> \o PrintLink(instr)
          [] opCode = OPC_GRP_BR * 16 + OPC_BV ->
                (IF extractInstrRegA(instr) # 0 THEN << GR(extractInstrRegA(instr)) >> ELSE << >>)
                \o PrintBase(instr) \o PrintLink(instr)
          [] opCode = OPC_GRP_SYS * 16 + OPC_MR ->
                IF opt = 0
                THEN << GR(extractInstrRegR(instr)), Id(","),
                        CR(extractInstrFieldU(instr, 0, 6)) >>
                ELSE IF opt = 1
                THEN << GR(extractInstrRegR(instr)), Id(","), CR(extractInstrRegB(instr)),
                        Id(","), GR(extractInstrFieldU(instr, 0, 6)) >>
                ELSE IF extractInstrBit(instr, 21) = 1
                THEN << GR(extractInstrRegR(instr)) >>
                ELSE PrintLpaOperands(instr)
          [] opCode \in { OPC_GRP_SYS * 16 + OPC_RFI, OPC_GRP_ALU * 16 + OPC_NOP } -> << >>
          [] OTHER -> << Id("**OPC**") >>

\* T64DisAssemble::formatInstr: the opcode, and the operands if there are any
formatInstr(instr) == buildOpCodeStr(instr) \o buildOperandStr(instr)

\* -------------------------------------------------------------------------
\* T64-SimWinCmd.cpp: the command history of the simulator, a circular
\* buffer of the last MAX_CMD_HIST command lines.  A history is the record of
\* the fields of SimCmdHistory.
\* -------------------------------------------------------------------------
MAX_CMD_HIST == 64

\* what getCmdLine returns for nullptr
NoCmdLine == [cmdLine |-> [s |-> "nullptr", n |-> 0], cmdId |-> 0]

\* an element of the array that was never written; no operation reads it
FreeEntry == [cmdId |-> 0, cmdLine |-> [s |-> "free", n |-> 0]]

\* SimCmdHistory::SimCmdHistory
NewCmdHistory ==
    [nextCmdNum |-> 0, head |-> 0, tail |-> 0, count |-> 0,
     history |-> [i \in 0 .. (MAX_CMD_HIST - 1) |-> FreeEntry]]

addCmdLine(h, cmdStr) ==
    [nextCmdNum |-> h.nextCmdNum + 1,
     head |-> (h.head + 1) % MAX_CMD_HIST,
     tail |-> IF h.count = MAX_CMD_HIST THEN (h.tail + 1) % MAX_CMD_HIST ELSE h.tail,
     count |-> IF h.count = MAX_CMD_HIST THEN h.count ELSE h.count + 1,
     history |-> [h.history EXCEPT ![h.head] = [cmdId |-> h.nextCmdNum, cmdLine |-> cmdStr]]]

\* the entry with the command number cmdRef among the count entries from tail
\* on
lookupCmdId(h, cmdRef) ==
    LET found == { i \in 0 .. (h.count - 1) :
                       h.history[(h.tail + i) % MAX_CMD_HIST].cmdId = cmdRef }
        first == CHOOSE i \in found : \A j \in found : i <= j
    IN  IF found = {} THEN NoCmdLine
        ELSE [cmdLine |-> h.history[(h.tail + first) % MAX_CMD_HIST].cmdLine,
              cmdId |-> h.history[(h.tail + first) % MAX_CMD_HIST].cmdId]

\* the line and the command number getCmdLine returns; cmdRef is at least
\* - MAX_CMD_HIST, as for its callers
getCmdLine(h, cmdRef) ==
    LET pos == (h.head + cmdRef + MAX_CMD_HIST) % MAX_CMD_HIST
    IN  IF cmdRef >= 0 /\ h.nextCmdNum - cmdRef > MAX_CMD_HIST THEN NoCmdLine
        ELSE IF cmdRef < 0 /\ - cmdRef > h.nextCmdNum THEN NoCmdLine
        ELSE IF h.count = 0 THEN NoCmdLine
        ELSE IF cmdRef >= 0 THEN lookupCmdId(h, cmdRef)
        ELSE IF pos < h.head /\ pos >= h.tail
        THEN [cmdLine |-> h.history[pos].cmdLine, cmdId |-> h.history[pos].cmdId]
        ELSE NoCmdLine

\* SimCommandsWin::histCmd with the depth given, 0 for none: the lines it
\* writes, "[cmdId]: cmdLine"
histCmd(h, given) ==
    LET depth == IF given = 0 \/ given > h.count THEN h.count ELSE given
        lines == [j \in 1 .. depth |-> getCmdLine(h, j - 1 - depth)]
    IN  SelectSeq(lines, LAMBDA l : l # NoCmdLine)

\* -------------------------------------------------------------------------
\* The state: the fields of T64Cpu, the processor's TLBs and memory, and the
\* history of the last operation
\* -------------------------------------------------------------------------
VARIABLES gRegFile, cRegFile, psrReg, instrReg, resvReg, iTlb, dTlb, mem, caOp,
          op, lastTrap, trapAt, lastHandler, nSets, nSteps

\* the caches of the processor modules on the bus, the memory module behind
\* them, and the last bus operation
VARIABLES busCache, busMem, busLast

\* the line given to the assembler, what assembleInstr returned for it, the
\* text of the disassembler for the word, and what assembleInstr returned for
\* that text, and the tokenizer's global lastErr
VARIABLES asmLine, asmResult, disText, asmAgain, lastErr

\* the arguments of the overflow predicates and what they returned
VARIABLES ovArgs, ovOut

\* the arguments of extractField64 and depositField and what they returned
VARIABLES fldArgs, fldOut

\* the fields of the command history, the lines given to addCmdLine so far,
\* and what the last call of getCmdLine or histCmd returned
VARIABLES nextCmdNum, head, tail, count, history, cmdsAdded, histOut

cpuVars == << gRegFile, cRegFile, psrReg, instrReg, resvReg, iTlb, dTlb, mem, caOp,
              op, lastTrap, trapAt, lastHandler, nSets, nSteps >>

busVars == << busCache, busMem, busLast >>

asmVars == << asmLine, asmResult, disText, asmAgain, lastErr >>

ovVars == << ovArgs, ovOut >>

fldVars == << fldArgs, fldOut >>

histVars == << nextCmdNum, head, tail, count, history, cmdsAdded, histOut >>

\* the state outside the CPU core, the bus, the assembler and the predicates
outsideCpu == << busVars, asmVars, ovVars, fldVars, histVars >>

outsideBus == << cpuVars, asmVars, ovVars, fldVars, histVars >>

outsideAsm == << cpuVars, busVars, ovVars, fldVars, histVars >>

outsideOv == << cpuVars, busVars, asmVars, fldVars, histVars >>

outsideFld == << cpuVars, busVars, asmVars, ovVars, histVars >>

outsideHist == << cpuVars, busVars, asmVars, ovVars, fldVars >>

vars == << cpuVars, busVars, asmVars, ovVars, fldVars, histVars >>

CpuState ==
    [g |-> gRegFile, c |-> cRegFile, psr |-> psrReg, instrReg |-> instrReg,
     resvReg |-> resvReg, iTlb |-> iTlb, dTlb |-> dTlb, mem |-> mem, caOp |-> caOp]

Install(st) ==
    /\ gRegFile' = st.g
    /\ cRegFile' = st.c
    /\ psrReg' = st.psr
    /\ instrReg' = st.instrReg
    /\ resvReg' = st.resvReg
    /\ iTlb' = st.iTlb
    /\ dTlb' = st.dTlb
    /\ mem' = st.mem
    /\ caOp' = st.caOp

\* what an operation other than an instruction leaves in the history
NoInstrHistory(name) ==
    /\ op' = name
    /\ lastTrap' = NoTrap
    /\ trapAt' = "none"
    /\ lastHandler' = "none"

\* -------------------------------------------------------------------------
\* The system bus: processor modules with an instruction and a data cache
\* each, one memory module, and the bus operations a processor observes
\* (T64-Processor.cpp). The caches and the system are described by the
\* specification only: a line is Invalid, Shared or Exclusive-Modified,
\* flush writes a modified line back and downgrades it, purge drops it.
\* -------------------------------------------------------------------------
NumProcs == 3

Procs == 1 .. NumProcs

\* the module number of the memory module
MemModule == 0

CacheKinds == { "iCache", "dCache" }

\* a line of physical memory and a word of processor 1's HPA range
BusAdrs == { "spaLine", "hpaWord" }

CachedAdrs == { "spaLine" }

BusDataValues == { 0, 1 }

InvalidLine == [state |-> "Invalid", data |-> 0]

\* T64System::lookupByAdr: the module that owns the address range
lookupByAdr(pAdr) == IF pAdr = "hpaWord" THEN 1 ELSE MemModule

\* T64Cache::flush: a modified line is written back and downgraded to Shared
\* or Invalid, a clean line is left alone
cacheFlush(bs, m, k, pAdr) ==
    LET line == bs.cache[m][k][pAdr]
    IN  IF line.state = "ExclusiveModified"
        THEN { [cache |-> [bs.cache EXCEPT ![m][k][pAdr] = l],
                mem |-> [bs.mem EXCEPT ![pAdr] = line.data]]
               : l \in { [state |-> "Shared", data |-> line.data], InvalidLine } }
        ELSE { bs }

\* T64Cache::purge: the line is dropped without writeback
cachePurge(bs, m, k, pAdr) == [bs EXCEPT !.cache[m][k][pAdr] = InvalidLine]

BusDone(bss, result) == { [bs |-> b, result |-> result] : b \in bss }

\* T64Processor::busOpReadSharedBlock
busOpReadSharedBlock(bs, moduleNum, reqModNum, pAdr) ==
    IF reqModNum = moduleNum THEN BusDone({ bs }, FALSE)
    ELSE IF lookupByAdr(pAdr) = moduleNum THEN BusDone({ bs }, TRUE)
    ELSE BusDone(UNION { cacheFlush(b, moduleNum, "dCache", pAdr)
                         : b \in cacheFlush(bs, moduleNum, "iCache", pAdr) }, TRUE)

\* the observer that keeps its copy
busOpReadPrivateBlockKeeping(bs, moduleNum, reqModNum, pAdr) ==
    IF reqModNum = moduleNum THEN BusDone({ bs }, FALSE)
    ELSE BusDone({ bs }, TRUE)

\* T64Processor::busOpReadPrivateBlock
busOpReadPrivateBlock(bs, moduleNum, reqModNum, pAdr) ==
    IF reqModNum = moduleNum THEN BusDone({ bs }, FALSE)
    ELSE IF lookupByAdr(pAdr) = moduleNum THEN BusDone({ bs }, TRUE)
    ELSE BusDone({ cachePurge(cachePurge(bs, moduleNum, "iCache", pAdr),
                              moduleNum, "dCache", pAdr) }, TRUE)

\* T64Processor::busOpWriteBlock
busOpWriteBlock(bs, moduleNum, reqModNum, pAdr) ==
    IF reqModNum = moduleNum THEN BusDone({ bs }, FALSE)
    ELSE BusDone({ bs }, TRUE)

\* the caches flushed and then purged, as both uncached operations do
FlushThenPurge(bs, moduleNum, pAdr) ==
    { cachePurge(cachePurge(b2, moduleNum, "iCache", pAdr), moduleNum, "dCache", pAdr)
      : b2 \in UNION { cacheFlush(b1, moduleNum, "dCache", pAdr)
                       : b1 \in cacheFlush(bs, moduleNum, "iCache", pAdr) } }

\* T64Processor::busOpReadUncached; the target's data is zero
busOpReadUncached(bs, moduleNum, reqModNum, pAdr) ==
    IF reqModNum = moduleNum THEN BusDone({ bs }, FALSE)
    ELSE IF lookupByAdr(pAdr) = moduleNum THEN BusDone({ bs }, TRUE)
    ELSE BusDone(FlushThenPurge(bs, moduleNum, pAdr), TRUE)

\* T64Processor::busOpWriteUncached; the observer's result is false
busOpWriteUncached(bs, moduleNum, reqModNum, pAdr) ==
    IF reqModNum = moduleNum THEN BusDone({ bs }, FALSE)
    ELSE IF lookupByAdr(pAdr) = moduleNum THEN BusDone({ bs }, TRUE)
    ELSE BusDone(FlushThenPurge(bs, moduleNum, pAdr), FALSE)

BusOpNames ==
    { "readSharedBlock", "readPrivateBlock", "writeBlock", "readUncached", "writeUncached" }

busOp(name, bs, moduleNum, reqModNum, pAdr) ==
    CASE name = "readSharedBlock" -> busOpReadSharedBlock(bs, moduleNum, reqModNum, pAdr)
      [] name = "readPrivateBlock" -> busOpReadPrivateBlock(bs, moduleNum, reqModNum, pAdr)
      [] name = "writeBlock" -> busOpWriteBlock(bs, moduleNum, reqModNum, pAdr)
      [] name = "readUncached" -> busOpReadUncached(bs, moduleNum, reqModNum, pAdr)
      [] OTHER -> busOpWriteUncached(bs, moduleNum, reqModNum, pAdr)

\* the system informs every processor module of the request, in the order of
\* the module numbers, from module m on
RECURSIVE busBroadcast(_, _, _, _, _)
busBroadcast(name, bs, reqModNum, pAdr, m) ==
    IF m > NumProcs THEN { bs }
    ELSE UNION { busBroadcast(name, o.bs, reqModNum, pAdr, m + 1)
                 : o \in busOp(name, bs, m, reqModNum, pAdr) }

BusState == [cache |-> busCache, mem |-> busMem]

BusInit ==
    /\ busCache = [m \in Procs |-> [k \in CacheKinds |-> [a \in BusAdrs |-> InvalidLine]]]
    /\ busMem = [a \in BusAdrs |-> 0]
    /\ busLast = [name |-> "none", req |-> 0, pAdr |-> "none"]

BusIssued(name, m, a) == busLast' = [name |-> name, req |-> m, pAdr |-> a]

\* a cache of module m misses and reads the line shared
IssueReadSharedBlock ==
    \E m \in Procs, k \in CacheKinds, a \in CachedAdrs :
        /\ busCache[m][k][a].state = "Invalid"
        /\ \E b \in busBroadcast("readSharedBlock", BusState, m, a, 1) :
              /\ busCache' = [b.cache EXCEPT ![m][k][a] =
                                 [state |-> "Shared", data |-> b.mem[a]]]
              /\ busMem' = b.mem
        /\ BusIssued("readSharedBlock", m, a)
        /\ UNCHANGED outsideBus

\* the data cache of module m reads the line private, to write to it
IssueReadPrivateBlock ==
    \E m \in Procs, a \in CachedAdrs :
        /\ busCache[m]["dCache"][a].state # "ExclusiveModified"
        /\ \E b \in busBroadcast("readPrivateBlock", BusState, m, a, 1) :
              /\ busCache' = [b.cache EXCEPT ![m]["dCache"][a] =
                                 [state |-> "ExclusiveModified", data |-> b.mem[a]]]
              /\ busMem' = b.mem
        /\ BusIssued("readPrivateBlock", m, a)
        /\ UNCHANGED outsideBus

\* the data cache of module m writes its exclusive copy back and drops it
IssueWriteBlock ==
    \E m \in Procs, a \in CachedAdrs :
        /\ busCache[m]["dCache"][a].state = "ExclusiveModified"
        /\ \E b \in busBroadcast("writeBlock", BusState, m, a, 1) :
              /\ busCache' = [b.cache EXCEPT ![m]["dCache"][a] = InvalidLine]
              /\ busMem' = [b.mem EXCEPT ![a] = busCache[m]["dCache"][a].data]
        /\ BusIssued("writeBlock", m, a)
        /\ UNCHANGED outsideBus

\* module m reads a word past its caches, which hold no copy of it
IssueReadUncached ==
    \E m \in Procs, a \in BusAdrs :
        /\ \A k \in CacheKinds : busCache[m][k][a].state = "Invalid"
        /\ \E b \in busBroadcast("readUncached", BusState, m, a, 1) :
              /\ busCache' = b.cache
              /\ busMem' = b.mem
        /\ BusIssued("readUncached", m, a)
        /\ UNCHANGED outsideBus

\* module m writes a word past its caches, which hold no copy of it
IssueWriteUncached ==
    \E m \in Procs, a \in BusAdrs, d \in BusDataValues :
        /\ \A k \in CacheKinds : busCache[m][k][a].state = "Invalid"
        /\ \E b \in busBroadcast("writeUncached", BusState, m, a, 1) :
              /\ busCache' = b.cache
              /\ busMem' = IF lookupByAdr(a) = MemModule
                           THEN [b.mem EXCEPT ![a] = d] ELSE b.mem
        /\ BusIssued("writeUncached", m, a)
        /\ UNCHANGED outsideBus

\* the CPU of module m writes to the line its data cache holds exclusive
WriteExclusiveLine ==
    \E m \in Procs, a \in CachedAdrs, d \in BusDataValues :
        /\ busCache[m]["dCache"][a].state = "ExclusiveModified"
        /\ busCache' = [busCache EXCEPT ![m]["dCache"][a].data = d]
        /\ busLast' = [name |-> "cacheWrite", req |-> m, pAdr |-> a]
        /\ UNCHANGED << busMem, outsideBus >>

\* T64Processor::reset, as far as the caches go
ResetCaches ==
    \E m \in Procs :
        /\ busCache' = [busCache EXCEPT ![m] =
                           [k \in CacheKinds |-> [a \in BusAdrs |-> InvalidLine]]]
        /\ busLast' = [name |-> "reset", req |-> m, pAdr |-> "none"]
        /\ UNCHANGED << busMem, outsideBus >>

\* -------------------------------------------------------------------------
\* The assembler and the disassembler at work on a line
\* -------------------------------------------------------------------------
AsmRegs == { 1, 2 }

ShiftNames == { "SHL1A", "SHL2A", "SHL3A", "SHR1A", "SHR2A", "SHR3A" }

\* the lines given to the assembler
AsmLines ==
    { << >>, << Id("?") >>, << Id("FOO") >>, << Id("NOP") >>, << Id("RFI") >>,
      << Id("NOP"), GR(1) >>,
      << Id("LDIL"), GR(1), Id(","), Id("~"), Num(5) >>,
      << Id("LDIL"), GR(1), Id(","), Id("-"), Num(5) >>,
      << Id("LDIL"), GR(1), Id(","), Num(2), Id("+"), Num(3) >>,
      << Id("LDIL"), GR(1), Id(","), Id("("), Num(5), Id(")") >>,
      << Id("LDIL"), GR(1), Id(","), GR(2) >>,
      << Id("BE"), Id("-"), Num(8), Id("("), GR(2), Id(")") >>,
      << Id("BE"), Num(6), Id("("), GR(2), Id(")") >>,
      << Id("BR"), [s |-> "T%d", n |-> 0] >>,
      << Id("MFIA"), GR(1) >>,
      << Id("MFIA"), GR(5), GR(1) >>,
      << Id("MFIA"), Id("."), Id("L"), GR(5), GR(1) >>,
      << Id("MFIA"), Id("."), Id("R"), GR(5), GR(1) >> }
    \cup { << Id(m), GR(r), Id(","), GR(2), Id(","), GR(3) >> : m \in ShiftNames, r \in AsmRegs }
    \cup { << Id(m), GR(r), Id(","), GR(2), Id(","), Num(5) >> : m \in ShiftNames, r \in AsmRegs }
    \cup { << Id(m), GR(1), Id(","), GR(2), Id(","), Id("-"), Num(5) >> : m \in ShiftNames }
    \cup { << Id(m), GR(r), Id(","), Num(n) >>
           : m \in { "LDIL", "ADDIL" }, r \in AsmRegs, n \in { 5, 1048575, 1048576 } }
    \cup { << Id(m), Id("."), Id(o), GR(1), Id(","), Num(5) >>
           : m \in { "LDIL", "ADDIL" }, o \in { "L", "M", "U", "W" } }
    \cup { << Id("BE"), Num(n), Id("("), GR(b), Id(")") >> : n \in { 8, 65532 }, b \in AsmRegs }
    \cup { << Id("BE"), Id("("), GR(b), Id(")") >> : b \in AsmRegs }
    \cup { << Id("BE"), GR(b), Id(","), GR(3) >> : b \in AsmRegs }
    \cup { << Id(m), GR(b) >> : m \in { "BR", "BV" }, b \in AsmRegs }
    \cup { << Id("BR"), Id("."), Id(o), GR(b), Id(","), GR(3) >>
           : o \in { "W", "D", "Q", "B" }, b \in AsmRegs }
    \cup { << Id("BV"), Id("("), GR(b), Id(")") >> : b \in AsmRegs }
    \cup { << Id("BV"), Id("."), Id(o), GR(1), Id("("), GR(b), Id(")"), Id(","), GR(3) >>
           : o \in { "W", "D", "Q" }, b \in AsmRegs }
    \cup { << Id(m), GR(b), Id(","), CR(c) >>
           : m \in { "MFCR", "MTCR" }, b \in { 0, 1 }, c \in { 0, 5 } }
    \cup { << Id("MTCR"), GR(b), Id(","), CR(5), Id(","), GR(2) >> : b \in { 0, 1 } }

NoResult == [ret |-> "none", err |-> NO_ERR, instr |-> NoInstr]

AsmInit ==
    /\ asmLine = << >>
    /\ asmResult = NoResult
    /\ disText = << >>
    /\ asmAgain = NoResult
    /\ lastErr = NO_ERR

\* what the caller of assembleInstr sees: a recursion without end has no
\* defined outcome; the process dies at the end of its stack or never returns
CallOutcomes(r) ==
    IF r.ret = "crashed" THEN { r, [r EXCEPT !.ret = "hung"] } ELSE { r }

\* lastErr after assembleInstr has returned r: only the catch clause assigns
\* it
LastErrAfter(r) == IF r.ret = "returned" /\ r.err # NO_ERR THEN r.err ELSE lastErr

\* T64Assemble::getErrId
getErrId == lastErr

\* a line is given to T64Assemble::assembleInstr
AssembleLine ==
    /\ \E line \in AsmLines :
          /\ asmLine' = line
          /\ asmResult' \in CallOutcomes(assembleInstr(line))
    /\ lastErr' = LastErrAfter(asmResult')
    /\ disText' = << >>
    /\ asmAgain' = NoResult
    /\ UNCHANGED outsideAsm

\* the word of an accepted line is given to T64DisAssemble::formatInstr
FormatWord ==
    /\ asmResult.ret = "returned"
    /\ asmResult.err = NO_ERR
    /\ disText = << >>
    /\ disText' = formatInstr(asmResult.instr)
    /\ UNCHANGED << asmLine, asmResult, asmAgain, lastErr, outsideAsm >>

\* the text of the disassembler is given to T64Assemble::assembleInstr
AssembleText ==
    /\ disText # << >>
    /\ asmAgain = NoResult
    /\ asmAgain' \in CallOutcomes(assembleInstr(disText))
    /\ lastErr' = LastErrAfter(asmAgain')
    /\ UNCHANGED << asmLine, asmResult, disText, outsideAsm >>

\* -------------------------------------------------------------------------
\* The overflow predicates of T64-Util.h at work on their arguments
\* -------------------------------------------------------------------------
\* the arguments: words at and around the ends of the signed range, and the
\* shift amounts 0 .. 63 of the instructions
OvWords ==
    { Zero, One, MinusOne, INT64_MAX, INT64_MIN, << 3, 0, 0, 0 >>,
      << 0, 32768, 0, 0 >>, << 0, 32768, 65535, 65535 >>, << 0, 0, 1, 0 >>,
      << 0, 0, 0, 16384 >>, << 0, 0, 0, 49152 >> }

OvShifts == { 0, 1, 31, 62, 63 }

OvInputs == [a : OvWords, b : OvWords, shift : OvShifts]

\* no predicate was called yet
NoOvOut == [done |-> {}, add |-> FALSE, sub |-> FALSE, mult |-> FALSE, shl |-> FALSE]

OvInit ==
    /\ ovArgs = [a |-> Zero, b |-> Zero, shift |-> 0]
    /\ ovOut = NoOvOut

CallWillAddOverflow ==
    /\ "add" \notin ovOut.done
    /\ ovOut' = [ovOut EXCEPT !.done = @ \cup { "add" },
                              !.add = willAddOverflow(ovArgs.a, ovArgs.b)]
    /\ UNCHANGED << ovArgs, outsideOv >>

CallWillSubOverflow ==
    /\ "sub" \notin ovOut.done
    /\ ovOut' = [ovOut EXCEPT !.done = @ \cup { "sub" },
                              !.sub = willSubOverflow(ovArgs.a, ovArgs.b)]
    /\ UNCHANGED << ovArgs, outsideOv >>

CallWillMultOverflow ==
    /\ "mult" \notin ovOut.done
    /\ ovOut' = [ovOut EXCEPT !.done = @ \cup { "mult" },
                              !.mult = willMultOverflow(ovArgs.a, ovArgs.b)]
    /\ UNCHANGED << ovArgs, outsideOv >>

CallWillShiftLeftOverflow ==
    /\ "shl" \notin ovOut.done
    /\ ovOut' = [ovOut EXCEPT !.done = @ \cup { "shl" },
                              !.shl = willShiftLeftOverflow(ovArgs.a, ovArgs.shift)]
    /\ UNCHANGED << ovArgs, outsideOv >>

\* T64Cpu::reset, and the reset of the TLBs by T64Processor::reset
reset(st) ==
    [st EXCEPT !.c = [i \in 0 .. (T64_MAX_CREGS - 1) |-> Zero],
               !.g = [i \in 0 .. (T64_MAX_GREGS - 1) |-> Zero],
               !.psr = Zero, !.instrReg = NoInstr, !.resvReg = Zero,
               !.iTlb = {}, !.dTlb = {}]

CpuInit ==
    /\ gRegFile = [i \in 0 .. (T64_MAX_GREGS - 1) |-> Zero]
    /\ cRegFile = [i \in 0 .. (T64_MAX_CREGS - 1) |-> Zero]
    /\ psrReg = Zero
    /\ instrReg = NoInstr
    /\ resvReg = Zero
    /\ iTlb = {}
    /\ dTlb = {}
    /\ mem = [a \in MemCells |-> 0]
    /\ caOp = << >>
    /\ op = "reset"
    /\ lastTrap = NoTrap
    /\ trapAt = "none"
    /\ lastHandler = "none"
    /\ nSets = 0
    /\ nSteps = 0

\* -------------------------------------------------------------------------
\* extractField64 and depositField of T64-Util.h at work on their arguments
\* -------------------------------------------------------------------------
\* the words, positions and lengths of the fields: a field is inside the word
FldWords ==
    { MinusOne, INT64_MIN, One, << 52719, 35243, 17767, 291 >>,
      << 4660, 22136, 39612, 65244 >> }

FldPositions == { 0, 1, 15, 16, 32, 52, 63 }

FldLengths == { 1, 2, 12, 16, 20, 32, 48, 63, 64 }

FldInputs ==
    { x \in [w : FldWords, pos : FldPositions, len : FldLengths, one64 : ShiftOneOutcomes] :
          x.pos + x.len <= 64 }

NoFldOut == [done |-> {}, field |-> Zero, word |-> Zero]

FldInit ==
    /\ fldArgs = [w |-> Zero, pos |-> 0, len |-> 1, one64 |-> Zero]
    /\ fldOut = NoFldOut

CallExtractField64 ==
    /\ fldOut.done = {}
    /\ fldOut' = [fldOut EXCEPT
                     !.done = { "extract" },
                     !.field = extractField64Build(fldArgs.w, fldArgs.pos, fldArgs.len,
                                                   fldArgs.one64)]
    /\ UNCHANGED << fldArgs, outsideFld >>

\* the field extracted is deposited into the word 0 at its place
CallDepositField ==
    /\ fldOut.done = { "extract" }
    /\ fldOut' = [fldOut EXCEPT
                     !.done = { "extract", "deposit" },
                     !.word = depositFieldBuild(Zero, fldArgs.pos, fldArgs.len,
                                                fldOut.field, fldArgs.one64)]
    /\ UNCHANGED << fldArgs, outsideFld >>

\* -------------------------------------------------------------------------
\* The command history at work
\* -------------------------------------------------------------------------
\* the number of command lines entered, two more than the buffer holds
MaxCmds == 66

\* the references given to getCmdLine: every relative one, and the command
\* numbers 0, 1, 2 and 65
CmdRefs == ((- MAX_CMD_HIST) .. (-1)) \cup { 0, 1, 2, 65 }

\* the depths given to HIST
HistDepths == { 0, 3 }

\* the n-th line entered is the text "CMD" with its number
CmdLineNo(n) == [s |-> "CMD", n |-> n]

CmdHistory ==
    [nextCmdNum |-> nextCmdNum, head |-> head, tail |-> tail, count |-> count,
     history |-> history]

InstallHistory(h) ==
    /\ nextCmdNum' = h.nextCmdNum
    /\ head' = h.head
    /\ tail' = h.tail
    /\ count' = h.count
    /\ history' = h.history

NoHistOut == [name |-> "none", cmdRef |-> 0, line |-> NoCmdLine, lines |-> << >>]

HistInit ==
    /\ nextCmdNum = NewCmdHistory.nextCmdNum
    /\ head = NewCmdHistory.head
    /\ tail = NewCmdHistory.tail
    /\ count = NewCmdHistory.count
    /\ history = NewCmdHistory.history
    /\ cmdsAdded = << >>
    /\ histOut = NoHistOut

\* a command line is entered
AddCmdLine ==
    /\ Len(cmdsAdded) < MaxCmds
    /\ InstallHistory(addCmdLine(CmdHistory, CmdLineNo(Len(cmdsAdded) + 1)))
    /\ cmdsAdded' = Append(cmdsAdded, CmdLineNo(Len(cmdsAdded) + 1))
    /\ histOut' = NoHistOut
    /\ UNCHANGED outsideHist

\* a line of the history is asked for
GetCmdLine ==
    /\ \E cmdRef \in CmdRefs :
          histOut' = [name |-> "getCmdLine", cmdRef |-> cmdRef,
                      line |-> getCmdLine(CmdHistory, cmdRef), lines |-> << >>]
    /\ UNCHANGED << nextCmdNum, head, tail, count, history, cmdsAdded, outsideHist >>

\* the command HIST
HistCmd ==
    /\ \E depth \in HistDepths :
          histOut' = [name |-> "histCmd", cmdRef |-> depth, line |-> NoCmdLine,
                      lines |-> histCmd(CmdHistory, depth)]
    /\ UNCHANGED << nextCmdNum, head, tail, count, history, cmdsAdded, outsideHist >>

Init == CpuInit /\ BusInit /\ AsmInit /\ OvInit /\ FldInit /\ HistInit

Reset ==
    /\ nSets < MaxSets
    /\ Install(reset(CpuState))
    /\ NoInstrHistory("reset")
    /\ nSets' = nSets + 1
    /\ UNCHANGED << nSteps, outsideCpu >>

SetGeneralReg ==
    /\ nSets < MaxSets
    /\ \E in \in GRegInputs : Install(setGeneralReg(CpuState, in[1], in[2]))
    /\ NoInstrHistory("setGeneralReg")
    /\ nSets' = nSets + 1
    /\ UNCHANGED << nSteps, outsideCpu >>

SetControlReg ==
    /\ nSets < MaxSets
    /\ \E in \in CRegInputs : Install(setControlReg(CpuState, in[1], in[2]))
    /\ NoInstrHistory("setControlReg")
    /\ nSets' = nSets + 1
    /\ UNCHANGED << nSteps, outsideCpu >>

SetPsrReg ==
    /\ nSets < MaxSets
    /\ \E val \in PsrValues : Install(setPsrReg(CpuState, val))
    /\ NoInstrHistory("setPsrReg")
    /\ nSets' = nSets + 1
    /\ UNCHANGED << nSteps, outsideCpu >>

\* the simulator's insert into the instruction TLB
InsertITlb ==
    /\ nSets < MaxSets
    /\ \E in \in ITlbInputs :
          Install([CpuState EXCEPT !.iTlb = TlbInsert(iTlb, in[1], in[2])])
    /\ NoInstrHistory("insertITlb")
    /\ nSets' = nSets + 1
    /\ UNCHANGED << nSteps, outsideCpu >>

\* T64Cpu::step with word in instruction memory at the instruction address
Step ==
    /\ nSteps < MaxSteps
    /\ \E word \in InstrSet :
          \E o \in step(CpuState, word) :
              /\ Install(o.st)
              /\ lastTrap' = o.trap
              /\ trapAt' = IF o.trap = NoTrap THEN "none" ELSE o.at
              /\ lastHandler' = o.handler
    /\ op' = "step"
    /\ nSteps' = nSteps + 1
    /\ UNCHANGED << nSets, outsideCpu >>

\* a handler called with a word of its own family, as the case labels of
\* instrExecute pair them; a trap it throws is not caught here
callHandler(st, word) ==
    LET name == HandlerOfKey(FamilyKey(word))
    IN  { [st |-> o.st, trap |-> o.trap, handler |-> name, at |-> "exec"]
          : o \in RunHandler(name, [st EXCEPT !.instrReg = word], word) }

CallHandler ==
    /\ nSteps < MaxSteps
    /\ \E word \in HandlerWords :
          \E o \in callHandler(CpuState, word) :
              /\ Install(o.st)
              /\ lastTrap' = o.trap
              /\ trapAt' = IF o.trap = NoTrap THEN "none" ELSE o.at
              /\ lastHandler' = o.handler
    /\ op' = "handler"
    /\ nSteps' = nSteps + 1
    /\ UNCHANGED << nSets, outsideCpu >>

\* a handler called once on the machine set up with ExecRegFiles, ExecShamts
\* and ExecMems
ExecHandler ==
    /\ nSteps = 0
    /\ \E word \in ExecWords :
          \E o \in callHandler(CpuState, word) :
              /\ Install(o.st)
              /\ lastTrap' = o.trap
              /\ trapAt' = IF o.trap = NoTrap THEN "none" ELSE o.at
              /\ lastHandler' = o.handler
    /\ op' = "handler"
    /\ nSteps' = nSteps + 1
    /\ UNCHANGED << nSets, outsideCpu >>

Next ==
    \/ Reset
    \/ SetGeneralReg
    \/ SetControlReg
    \/ SetPsrReg
    \/ InsertITlb
    \/ Step

Spec == Init /\ [][Next]_vars

\* the handlers called one by one, next to the operations of Spec
HandlerNext ==
    \/ Reset
    \/ SetGeneralReg
    \/ SetControlReg
    \/ SetPsrReg
    \/ InsertITlb
    \/ Step
    \/ CallHandler

HandlerSpec == Init /\ [][HandlerNext]_vars

\* the bus operations issued by the processor modules, in any order
BusNext ==
    \/ IssueReadSharedBlock
    \/ IssueReadPrivateBlock
    \/ IssueWriteBlock
    \/ IssueReadUncached
    \/ IssueWriteUncached
    \/ WriteExclusiveLine
    \/ ResetCaches

BusSpec == Init /\ [][BusNext]_vars

\* lines assembled, disassembled and assembled again
AsmNext ==
    \/ AssembleLine
    \/ FormatWord
    \/ AssembleText

AsmSpec == Init /\ [][AsmNext]_vars

\* the overflow predicates called on arguments drawn from OvInputs
OverflowInit ==
    /\ CpuInit
    /\ BusInit
    /\ AsmInit
    /\ ovArgs \in OvInputs
    /\ ovOut = NoOvOut
    /\ FldInit
    /\ HistInit

OverflowNext ==
    \/ CallWillAddOverflow
    \/ CallWillSubOverflow
    \/ CallWillMultOverflow
    \/ CallWillShiftLeftOverflow

OverflowSpec == OverflowInit /\ [][OverflowNext]_vars

\* extractField64 and depositField called on arguments drawn from FldInputs
FieldInit ==
    /\ CpuInit
    /\ BusInit
    /\ AsmInit
    /\ OvInit
    /\ fldArgs \in FldInputs
    /\ fldOut = NoFldOut
    /\ HistInit

FieldNext ==
    \/ CallExtractField64
    \/ CallDepositField

FieldSpec == FieldInit /\ [][FieldNext]_vars

\* the machine after the simulator has set the registers, the PSR and the
\* memory, and one handler called on it
ExecInit ==
    /\ gRegFile \in ExecRegFiles
    /\ cRegFile \in { [i \in 0 .. (T64_MAX_CREGS - 1) |->
                          IF i = CTL_REG_SHAMT THEN sh ELSE Zero] : sh \in ExecShamts }
    /\ psrReg = ExecPsr
    /\ instrReg = NoInstr
    /\ resvReg = Zero
    /\ iTlb = {}
    /\ dTlb = {}
    /\ mem \in ExecMems
    /\ caOp = << >>
    /\ op = "reset"
    /\ lastTrap = NoTrap
    /\ trapAt = "none"
    /\ lastHandler = "none"
    /\ nSets = 0
    /\ nSteps = 0
    /\ BusInit
    /\ AsmInit
    /\ OvInit
    /\ FldInit
    /\ HistInit

ExecNext == ExecHandler

ExecSpec == ExecInit /\ [][ExecNext]_vars

\* command lines entered and looked up, in any order
HistNext ==
    \/ AddCmdLine
    \/ GetCmdLine
    \/ HistCmd

HistSpec == Init /\ [][HistNext]_vars

\* -------------------------------------------------------------------------
\* Properties
\* -------------------------------------------------------------------------
\* the value a read of general register i yields architecturally
RegVal(i) == IF i = 0 THEN Zero ELSE gRegFile[i]

\* the instruction address of a PSR value
IaOf(psr) == extractField64(psr, 0, 52)

IaAligned(psr) == IaOf(psr)[1] % 4 = 0

\* the instruction address n bytes after that of psr
IaPlus(psr, n) == extractField64(WAdd(IaOf(psr), ToWord(n)), 0, 52)

SignedLimb(l) == IF l >= HalfLimb THEN l - Limb ELSE l

\* the top limb of the exact sum of two signed 64-bit values
ExactSumTop(a, b) ==
    LET c1 == (a[1] + b[1]) \div Limb
        c2 == (a[2] + b[2] + c1) \div Limb
        c3 == (a[3] + b[3] + c2) \div Limb
    IN  SignedLimb(a[4]) + SignedLimb(b[4]) + c3

\* a + b is representable as a signed 64-bit integer
AddFits(a, b) == ExactSumTop(a, b) >= - HalfLimb /\ ExactSumTop(a, b) < HalfLimb

ExactSum(a, b) ==
    LET c1 == (a[1] + b[1]) \div Limb
        c2 == (a[2] + b[2] + c1) \div Limb
        c3 == (a[3] + b[3] + c2) \div Limb
    IN  << (a[1] + b[1]) % Limb, (a[2] + b[2] + c1) % Limb,
           (a[3] + b[3] + c2) % Limb, ExactSumTop(a, b) % Limb >>

\* the condition an option names
CondHolds(opt, a, b) ==
    CASE opt = "EQ" -> a = b
      [] opt = "LT" -> WLt(a, b)
      [] opt = "GT" -> WGt(a, b)
      [] opt = "EV" -> a[1] % 2 = 0
      [] opt = "NE" -> a # b
      [] opt = "GE" -> ~ WLt(a, b)
      [] opt = "LE" -> ~ WGt(a, b)
      [] opt = "OD" -> a[1] % 2 = 1

AllCondOptions == {"EQ", "LT", "GT", "EV", "NE", "GE", "LE", "OD"}

\* C1: R0 is observationally zero: after any sequence of setGeneralReg calls
\* (index 0 and its alias 16 included) and executed instructions,
\* getGeneralReg( 0 ) and every operand read of R0 return 0, so that an
\* executed ADD R2, R0, 7 leaves 7 in R2.
C1_R0ObservationallyZero ==
    /\ getGeneralReg(CpuState, 0) = Zero
    /\ \A w \in InstrSet \cup HandlerWords :
          /\ extractInstrRegR(w) = 0 => getRegR(CpuState, w) = Zero
          /\ extractInstrRegB(w) = 0 => getRegB(CpuState, w) = Zero
          /\ extractInstrRegA(w) = 0 => getRegA(CpuState, w) = Zero
    /\ (op = "step" /\ lastTrap = NoTrap /\ instrReg = parseModeTypeInstrNum(OPC_ADD, 2, 0, 7))
          => gRegFile[2] = ToWord(7)

\* C1 witness: ADD R2, R0, 7 was executed while gRegFile[ 0 ] held a value
\* written through the alias index 16
C1_Witness ==
    /\ op = "step"
    /\ lastTrap = NoTrap
    /\ instrReg = parseModeTypeInstrNum(OPC_ADD, 2, 0, 7)
    /\ gRegFile[0] # Zero

\* C2: after a trap raised while executing an instruction, IPSR holds the
\* PSR value at the fault, IINSTR the instruction word that was executed,
\* IARG_0 and IARG_1 the arg0 and arg1 of the trap packet.
C2_TrapRegsReflectInstr ==
    [][(op' = "step" /\ trapAt' = "exec") =>
          /\ cRegFile'[CTL_REG_IPSR] = psrReg
          /\ cRegFile'[CTL_REG_IINSTR] = InstrToWord(instrReg')
          /\ cRegFile'[CTL_REG_IARG_0] = lastTrap'.arg0
          /\ cRegFile'[CTL_REG_IARG_1] = lastTrap'.arg1]_vars

\* C3: after any trap delivered by step, PSR equals IVA.
C3_PsrIsIvaAfterTrap ==
    [][(op' = "step" /\ lastTrap' # NoTrap) => psrReg' = cRegFile'[CTL_REG_IVA]]_vars

\* C4: a trap raised during instruction fetch is delivered like an execution
\* trap: when step returns, IPSR, IARG_0 and IARG_1 hold the instruction
\* address and the arguments of the trap packet, and IINSTR what the packet
\* holds for the instruction.
C4_FetchTrapDelivered ==
    [][(op' = "step" /\ trapAt' = "fetch") =>
          /\ cRegFile'[CTL_REG_IPSR] = lastTrap'.instrAdr
          /\ cRegFile'[CTL_REG_IINSTR] \in { lastTrap'.arg0, InstrToWord(lastTrap'.instr) }
          /\ cRegFile'[CTL_REG_IARG_0] = lastTrap'.arg0
          /\ cRegFile'[CTL_REG_IARG_1] = lastTrap'.arg1]_vars

\* C5: results are written only after all checks pass: an instruction whose
\* execution raises a trap leaves all general registers and all of memory as
\* they were, whether it ran through step or its handler was called.
C5_TrapLeavesRegsAndMem ==
    [][(op' \in {"step", "handler"} /\ lastTrap' # NoTrap) =>
          (gRegFile' = gRegFile /\ mem' = mem)]_vars

\* C5 witness: ADD R2, R1, 1 with R1 = INT64_MAX raised the overflow trap
C5_Witness ==
    /\ op \in {"step", "handler"}
    /\ lastTrap.trapCode = "OVERFLOW_TRAP"
    /\ instrReg = parseModeTypeInstrNum(OPC_ADD, 2, 1, 1)
    /\ gRegFile[1] = INT64_MAX

C7_DispatchByGroupAndOpcode ==
    [][(op' = "step" /\ trapAt' # "fetch") =>
          /\ lastHandler' = HandlerOfKey(FamilyKey(instrReg'))
          /\ lastHandler' = "illegalInstrTrap" =>
                lastTrap'.trapCode = "ILLEGAL_INSTR_TRAP"]_vars

\* the effect of ADD R, B, src on the primed state: the sum in R (a write to
\* R0 is dropped), the other registers unchanged, IA advanced by 4 and no
\* trap if the sum is representable; the overflow trap and unchanged
\* registers if it is not
AddEffect(r, b, src) ==
    IF AddFits(b, src)
    THEN /\ lastTrap' = NoTrap
         /\ \A i \in 1 .. (T64_MAX_GREGS - 1) :
               gRegFile'[i] = IF i = r THEN ExactSum(b, src) ELSE gRegFile[i]
         /\ IaOf(psrReg') = IaPlus(psrReg, 4)
    ELSE /\ lastTrap'.trapCode = "OVERFLOW_TRAP"
         /\ gRegFile' = gRegFile

\* C8: ALU ADD R, B, src with src a register A or a sign-extended imm15: if
\* B + src is representable as a signed 64-bit integer, R becomes B + src
\* and IA advances by 4 without a trap; otherwise the overflow trap is
\* raised and R is unchanged.
C8_AluAdd ==
    [][(op' = "step" /\ trapAt' # "fetch") =>
          /\ \A t \in AddImmOperands :
                instrReg' = parseModeTypeInstrNum(OPC_ADD, t[1], t[2], t[3])
                   => AddEffect(t[1], RegVal(t[2]), ToWord(t[3]))
          /\ \A t \in AddRegOperands :
                instrReg' = parseModeTypeInstrGreg(OPC_ADD, t[1], t[2], t[3])
                   => AddEffect(t[1], RegVal(t[2]), RegVal(t[3]))]_vars

\* C8 witness: scenario 1, ADD R2, R1, 7 with R1 = 5 was executed at 0x100
C8_Witness ==
    /\ op = "step"
    /\ lastTrap = NoTrap
    /\ instrReg = parseModeTypeInstrNum(OPC_ADD, 2, 1, 7)
    /\ gRegFile[1] = ToWord(5)
    /\ gRegFile[2] = ToWord(12)
    /\ IaOf(psrReg) = ToWord(260)

\* C9: evalCond returns 1 exactly when the condition of the code holds, with
\* the codes of the assembler's and the disassembler's tables: 0 EQ, 1 LT,
\* 2 GT, 3 EV, 4 NE, 5 GE, 6 LE, 7 OD; a CBR handler takes the branch exactly
\* when the condition its option names holds of R and B.
C9_CondTable ==
    [][(op' = "handler" /\ lastHandler' = "instrBrCbrOp") =>
          LET a == getRegR(CpuState, instrReg')
              b == getRegB(CpuState, instrReg')
              code == extractInstrFieldU(instrReg', 19, 3)
          IN  /\ \A opt \in AllCondOptions :
                    /\ printCondField(CompareCondCode(opt)) = opt
                    /\ (evalCond(CompareCondCode(opt), a, b) = 1) <=> CondHolds(opt, a, b)
              /\ (psrReg' # nextInstr(CpuState).psr)
                    <=> CondHolds(printCondField(code), a, b)]_vars

\* C10: the assembler's encoding of CBR.cond R, B, ofs, executed with the
\* condition true of R and B, sets IA to IA + ofs without a trap; with the
\* condition false IA becomes IA + 4.
C10_TakenBranchLandsAtOfs ==
    [][(op' = "handler") =>
          \A cond \in CondOptions, ofs \in BranchOffsets :
              instrReg' = parseInstrXBR(OPC_CBR, cond, 1, 2, ofs) =>
                  IF CondHolds(cond, RegVal(1), RegVal(2))
                  THEN lastTrap' = NoTrap /\ IaOf(psrReg') = IaPlus(psrReg, ofs)
                  ELSE IaOf(psrReg') = IaPlus(psrReg, 4)]_vars

\* -------------------------------------------------------------------------
\* C11: when step() has just caught a trap raised by a handler while the PSR
\* was p (the instruction address of the trap packet), and the RFI handler
\* runs next and returns, PSR is p again
C11_TrapThenRfiRestoresPsr ==
    [][(/\ op = "step" /\ trapAt = "exec"
        /\ op' = "handler" /\ lastHandler' = "instrSysRfiOp" /\ lastTrap' = NoTrap)
       => psrReg' = lastTrap.instrAdr]_vars

\* the RFI handler has returned into a PSR a trap had saved in IPSR
C11_Witness ==
    /\ op = "handler" /\ lastHandler = "instrSysRfiOp" /\ lastTrap = NoTrap
    /\ nSteps = 2
    /\ cRegFile[CTL_REG_IPSR] # Zero
    /\ psrReg = cRegFile[CTL_REG_IPSR]

\* the handlers of the SYS instructions the claim names
SysPrivHandlers ==
    { "instrSysMrOp", "instrSysLpaOp", "instrSysTlbOp", "instrSysCaOp", "instrSysMstOp",
      "instrSysRfiOp" }

\* C12: a SYS handler called with the X bit of PSR clear raises
\* PRIV_OPERATION_TRAP and changes no control register, TLB entry, cache
\* line or PSR bit
C12_SysHandlersPrivileged ==
    [][(/\ op' = "handler" /\ lastHandler' \in SysPrivHandlers
        /\ ~ extractPsrXbit(psrReg))
       => (/\ lastTrap' # NoTrap
           /\ lastTrap'.trapCode = "PRIV_OPERATION_TRAP"
           /\ cRegFile' = cRegFile /\ iTlb' = iTlb /\ dTlb' = dTlb
           /\ caOp' = caOp /\ psrReg' = psrReg)]_vars

\* the trap a fetch at the IA of psr has to raise, "NONE" when the word is
\* read: alignment first, then the X bit for a physical IA, and for any
\* other IA the I-TLB entry before the region id
FetchTrapDue(psr) ==
    LET ia == IaOf(psr)
    IN  IF ia[1] % 4 # 0 THEN "INSTR_ALIGNMENT_TRAP"
        ELSE IF ia[3] = 0 /\ ia[4] = 0 /\ ia[2] <= 61439
        THEN IF psr[4] \div 8192 % 2 = 0 THEN "PRIV_OPERATION_TRAP" ELSE "NONE"
        ELSE IF \A e \in iTlb : e.vpn # vAdrPageNum(ia) THEN "INSTR_TLB_MISS_TRAP"
        ELSE IF ~ regionIdCheck(CpuState, vAdrRegionId(ia), FALSE)
        THEN "INSTR_PROTECTION_TRAP"
        ELSE "NONE"

\* C13: step() raises at the fetch exactly the trap of the first check that
\* fails, in the order alignment, X bit (physical IA) or I-TLB entry and
\* region id (any other IA); with a fetch trap no instruction word is read
\* or executed, and without one the word is in the instruction register
C13_FetchCheckOrder ==
    [][op' = "step" =>
          IF FetchTrapDue(psrReg) = "NONE"
          THEN trapAt' # "fetch" /\ lastHandler' # "none"
          ELSE /\ trapAt' = "fetch"
               /\ lastTrap'.trapCode = FetchTrapDue(psrReg)
               /\ lastTrap'.arg0 = (IF FetchTrapDue(psrReg) = "PRIV_OPERATION_TRAP"
                                    THEN Zero ELSE IaOf(psrReg))
               /\ instrReg' = instrReg
               /\ lastHandler' = "none"]_vars

\* a fetch of a misaligned physical IA with the X bit clear has raised the
\* alignment trap
C13_Witness ==
    /\ op = "step" /\ trapAt = "fetch"
    /\ lastTrap.trapCode = "INSTR_ALIGNMENT_TRAP"
    /\ ~ extractPsrXbit(psrReg)

\* a fetch of a virtual IA with an I-TLB entry has raised the protection
\* trap
C13_WitnessProtection ==
    /\ op = "step" /\ trapAt = "fetch"
    /\ lastTrap.trapCode = "INSTR_PROTECTION_TRAP"

\* the address of the data access of an LD or ST word in the offset form
DataAdrOf(instr) ==
    addAdrOfs32(RegVal(extractInstrRegB(instr)),
                ToWord(extractInstrSignedScaledImm13(instr)))

\* the data access of instr passes the alignment check, is translated by
\* an entry of the D-TLB and fails the region id check
DataRegionCheckFails(instr, wMode) ==
    LET vAdr == DataAdrOf(instr)
    IN  /\ extractInstrFieldU(instr, 19, 3) = 0
        /\ isAlignedDataAdr(vAdr, Pow2(extractInstrDwField(instr)))
        /\ ~ isPhysMemAdr(CpuState, vAdr)
        /\ TlbLookup(dTlb, vAdr) # NoEntry
        /\ ~ regionIdCheck(CpuState, vAdrRegionId(vAdr), wMode)

\* C14: a data read or data write whose region id check fails raises a
\* trap of kind DataProtection with the virtual address as arg0
C14_DataProtectionKind ==
    [][(/\ op' = "handler"
        /\ \/ lastHandler' = "instrMemLdOp" /\ DataRegionCheckFails(instrReg', FALSE)
           \/ lastHandler' = "instrMemStOp" /\ DataRegionCheckFails(instrReg', TRUE))
       => (/\ lastTrap' # NoTrap
           /\ lastTrap'.trapCode = "DATA_PROTECTION_TRAP"
           /\ lastTrap'.arg0 = DataAdrOf(instrReg'))]_vars

\* C15: when the LDR handler returns the reserved flag is set; when the STC
\* handler returns the flag is clear and R tells whether the flag was set
\* when the STC ran (1) or not (0)
C15_LdrStcProtocol ==
    [][/\ (op' = "handler" /\ lastHandler' = "instrMemLdrOp" /\ lastTrap' = NoTrap)
          => resvReg' # Zero
       /\ (op' = "handler" /\ lastHandler' = "instrMemStcOp" /\ lastTrap' = NoTrap)
          => (/\ resvReg' = Zero
              /\ gRegFile'[extractInstrRegR(instrReg')] =
                     (IF resvReg # Zero THEN One ELSE Zero))]_vars


\* the modules that hold the line in the given state, in either cache
Holders(a, state) ==
    { m \in Procs : \E k \in CacheKinds : busCache[m][k][a].state = state }

\* C16: whatever bus operations the modules issue and observe, at most one
\* module holds a line Exclusive-Modified, and while one does no other module
\* holds the line Shared
C16_Coherence ==
    \A a \in BusAdrs :
        /\ Cardinality(Holders(a, "ExclusiveModified")) <= 1
        /\ \A m \in Holders(a, "ExclusiveModified") :
              Holders(a, "Shared") \subseteq { m }

\* a module took the line private from a module that held it
C16_Witness ==
    /\ busLast.name = "readPrivateBlock"
    /\ Holders("spaLine", "ExclusiveModified") = { busLast.req }
    /\ busMem["spaLine"] = 1
    /\ busCache[busLast.req]["dCache"]["spaLine"].data = 1

\* C17: an observer that holds the line Exclusive-Modified when another
\* module reads it private has written its data back to memory once the
\* operation is over, and no longer holds the line
C17_PrivateReadWritesBack ==
    [][\A m \in Procs, a \in CachedAdrs :
          (/\ busLast'.name = "readPrivateBlock"
           /\ busLast'.pAdr = a
           /\ busLast'.req # m
           /\ busCache[m]["dCache"][a].state = "ExclusiveModified")
          => (/\ busMem'[a] = busCache[m]["dCache"][a].data
              /\ busCache'[m]["dCache"][a].state = "Invalid")]_vars


\* C18: assembleInstr returns for every line, with NO_ERR and the word, or
\* with the error id of the first error and the word 0; nothing escapes
C18_ErrorsReturned ==
    \A r \in { asmResult, asmAgain } :
        r.ret # "none" =>
            /\ r.ret = "returned"
            /\ r.err # NO_ERR => r.instr = NoInstr

\* C19: the text the disassembler prints for the word of an accepted line
\* assembles to the same word
C19_RoundTrip ==
    asmAgain.ret # "none" =>
        /\ asmAgain.ret = "returned"
        /\ asmAgain.err = NO_ERR
        /\ asmAgain.instr = asmResult.instr

\* the exact sum a + b is a signed 64-bit number: the operands differ in
\* sign, or the sum modulo 2^64 keeps their sign
AddRepresentable(a, b) == IsNeg(a) # IsNeg(b) \/ IsNeg(WAdd(a, b)) = IsNeg(a)

\* the exact difference a - b is a signed 64-bit number
SubRepresentable(a, b) == IsNeg(a) = IsNeg(b) \/ IsNeg(WSub(a, b)) = IsNeg(a)

\* the sum of the products of the bytes of A and B whose places add up to k
RECURSIVE ColumnSum(_, _, _, _)
ColumnSum(A, B, k, i) ==
    IF i > 7 THEN 0
    ELSE (IF k - i >= 0 /\ k - i <= 7 THEN WByte(A, i) * WByte(B, k - i) ELSE 0)
         + ColumnSum(A, B, k, i + 1)

\* the 16 bytes of the exact product of the unsigned patterns A and B, from
\* byte k on
RECURSIVE ProductBytes(_, _, _, _)
ProductBytes(A, B, k, carry) ==
    IF k > 15 THEN << >>
    ELSE LET sum == carry + ColumnSum(A, B, k, 0)
         IN  << sum % 256 >> \o ProductBytes(A, B, k + 1, sum \div 256)

\* the exact product a * b is a signed 64-bit number: its magnitude is below
\* 2^63, or it is 2^63 and the product is negative
MultRepresentable(a, b) ==
    LET m == ProductBytes(WAbs(a), WAbs(b), 0, 0)
        high == { k \in 9 .. 16 : m[k] # 0 }
        low == { k \in 1 .. 7 : m[k] # 0 }
    IN  /\ high = {}
        /\ \/ m[8] < 128
           \/ m[8] = 128 /\ low = {} /\ IsNeg(a) # IsNeg(b)

\* the exact product v * 2^shamt is a signed 64-bit number: the bits
\* 63 .. 63 - shamt of v are all equal
ShiftRepresentable(v, shamt) ==
    \A i \in (63 - shamt) .. 63 : WBit(v, i) = WBit(v, 63)

\* C20: each overflow predicate returns true exactly when the exact result
\* of a + b, a - b, a * b or v * 2^shamt (0 <= shamt <= 63) is not a signed
\* 64-bit number
C20_OverflowTight ==
    /\ "add" \in ovOut.done => (ovOut.add <=> ~ AddRepresentable(ovArgs.a, ovArgs.b))
    /\ "sub" \in ovOut.done => (ovOut.sub <=> ~ SubRepresentable(ovArgs.a, ovArgs.b))
    /\ "mult" \in ovOut.done => (ovOut.mult <=> ~ MultRepresentable(ovArgs.a, ovArgs.b))
    /\ "shl" \in ovOut.done
          => (ovOut.shl <=> ~ ShiftRepresentable(ovArgs.a, ovArgs.shift))

\* the word that has the bits [pos+len-1 : pos] of w and 0 everywhere else
FieldInPlace(w, pos, len) ==
    FromBits([i \in 0 .. 63 |-> IF i >= pos /\ i < pos + len THEN WBit(w, i) ELSE 0])

\* C21: for len >= 1 and pos + len <= 64 the field of w extracted with
\* extractField64 and deposited into 0 with depositField has the bits of w at
\* [pos+len-1 : pos] and 0 everywhere else
C21_ExtractDepositRoundTrip ==
    "deposit" \in fldOut.done
        => fldOut.word = FieldInPlace(fldArgs.w, fldArgs.pos, fldArgs.len)

\* what SUB with target r, minuend b and subtrahend src has to do: R becomes
\* b - src and IA advances by 4 without a trap if the difference is
\* representable; the overflow trap if it is not
SubEffect(r, b, src) ==
    IF SubRepresentable(b, src)
    THEN /\ lastTrap' = NoTrap
         /\ gRegFile'[r] = WSub(b, src)
         /\ IaOf(psrReg') = IaPlus(psrReg, 4)
    ELSE lastTrap'.trapCode = "OVERFLOW_TRAP"

\* C22: ALU SUB R, B, src computes from register B: R becomes B - src
\* whatever R held before and IA advances by 4 when B - src is representable;
\* the overflow trap is raised when it is not.
C22_AluSubFromRegB ==
    [][(op' = "handler" /\ lastHandler' = "instrAluSubOp") =>
          /\ instrReg' = parseModeTypeInstrNum(OPC_SUB, 2, 1, 7)
                => SubEffect(2, RegVal(1), ToWord(7))
          /\ instrReg' = parseModeTypeInstrGreg(OPC_SUB, 2, 1, 3)
                => SubEffect(2, RegVal(1), RegVal(3))]_vars

\* what BB has to do when bit is the bit tested, t the option T and ofs the
\* offset: the branch by ofs when the bit is 1 for T and 0 for F, IA + 4
\* otherwise
BbEffect(t, bit, ofs) ==
    IF bit = (IF t THEN 1 ELSE 0)
    THEN IaOf(psrReg') = IaPlus(psrReg, ofs)
    ELSE IaOf(psrReg') = IaPlus(psrReg, 4)

\* C23: BB.T / BB.F tests a bit of general register R: the branch is taken
\* (IA becomes IA + (imm13 << 2)) exactly when bit pos of the value in R is 1
\* for .T or 0 for .F, pos being the position field of the instruction or the
\* low 6 bits of SAR; otherwise IA becomes IA + 4.
C23_BitBranch ==
    [][(op' = "handler" /\ lastHandler' = "instrBrBbOp") =>
          \A t \in BOOLEAN, ofs \in BbOffsets :
              /\ \A pos \in BbPositions :
                    instrReg' = parseInstrBB(t, 2, pos, FALSE, ofs)
                       => BbEffect(t, WBit(RegVal(2), pos), ofs)
              /\ instrReg' = parseInstrBB(t, 2, 0, TRUE, ofs)
                    => BbEffect(t, WBit(RegVal(2), cRegFile[CTL_REG_SHAMT][1] % 64),
                                ofs)]_vars

\* the word w with the bits [pos+len-1 : pos] replaced by the low len bits
\* of the number v
FieldReplaced(w, pos, len, v) ==
    FromBits([i \in 0 .. 63 |->
        IF i >= pos /\ i < pos + len THEN (v \div Pow2(i - pos)) % 2 ELSE WBit(w, i)])

\* C24: LDIL.M sets R to its previous value with bits [51:32] replaced by
\* imm20, LDIL.U sets R to its previous value with bits [63:52] replaced by
\* the low 12 bits of imm20; the other bits of R are unchanged and IA
\* advances by 4.
C24_LdilDeposits ==
    [][(op' = "handler" /\ lastHandler' = "instrAluImmOp") =>
          \A v \in ImmValues :
              /\ instrReg' = parseInstrImmOpWord(2, 2, v)
                    => /\ gRegFile'[2] = FieldReplaced(RegVal(2), 32, 20, v)
                       /\ IaOf(psrReg') = IaPlus(psrReg, 4)
              /\ instrReg' = parseInstrImmOpWord(3, 2, v)
                    => /\ gRegFile'[2] = FieldReplaced(RegVal(2), 52, 12, v)
                       /\ IaOf(psrReg') = IaPlus(psrReg, 4)]_vars

\* the number the len bytes at cell a of memory m spell, most significant
\* byte first, as a word with zeros above it
BytesAt(m, a, len) ==
    WFromBytes([k \in 0 .. 7 |-> IF k < len THEN m[a + (len - 1 - k)] ELSE 0])

\* the low n bits of w with bit n - 1 repeated above them
SignExtended(w, n) ==
    FromBits([i \in 0 .. 63 |-> IF i < n THEN WBit(w, i) ELSE WBit(w, n - 1)])

\* C25: LD of width 1, 2 or 4 bytes writes to R the value loaded,
\* sign-extended from its most significant loaded bit when the U bit (bit 20)
\* of the instruction is clear and zero-extended when it is set.
C25_LoadExtension ==
    [][(/\ op' = "handler"
        /\ lastHandler' = "instrMemLdOp"
        /\ RegVal(1) = ToWord(MemBase)) =>
          \A dw \in LdWidths, u \in BOOLEAN, ofs \in LdOffsets :
              instrReg' = parseMemOpOfs(OPC_LD, dw, u, 2, ofs, 1) =>
                  /\ lastTrap' = NoTrap
                  /\ gRegFile'[2] =
                        IF u THEN BytesAt(mem, MemBase + ofs, Pow2(dw))
                        ELSE SignExtended(BytesAt(mem, MemBase + ofs, Pow2(dw)),
                                          8 * Pow2(dw))]_vars

\* what a MEM group operation on R2 and R1 has to do when rd is the outcome
\* of the dataRead of its memory operand: ADD and SUB accumulate into R, AND,
\* OR and XOR combine B with the operand, CMP.EQ compares B with it
MemOpEffect(opf, rd) ==
    IF rd.trap # NoTrap THEN lastTrap' = rd.trap
    ELSE CASE opf = OPC_ADD ->
                  IF AddFits(RegVal(2), rd.data)
                  THEN lastTrap' = NoTrap /\ gRegFile'[2] = WAdd(RegVal(2), rd.data)
                  ELSE lastTrap'.trapCode = "OVERFLOW_TRAP"
           [] opf = OPC_SUB ->
                  IF SubRepresentable(RegVal(2), rd.data)
                  THEN lastTrap' = NoTrap /\ gRegFile'[2] = WSub(RegVal(2), rd.data)
                  ELSE lastTrap'.trapCode = "OVERFLOW_TRAP"
           [] opf = OPC_AND ->
                  lastTrap' = NoTrap /\ gRegFile'[2] = WAnd(RegVal(1), rd.data)
           [] opf = OPC_OR ->
                  lastTrap' = NoTrap /\ gRegFile'[2] = WOr(RegVal(1), rd.data)
           [] opf = OPC_XOR ->
                  lastTrap' = NoTrap /\ gRegFile'[2] = WXor(RegVal(1), rd.data)
           [] OTHER ->
                  /\ lastTrap' = NoTrap
                  /\ gRegFile'[2] = IF RegVal(1) = rd.data THEN One ELSE Zero

\* C26: every MEM group ADD, SUB, AND, OR, XOR and CMP handler takes its
\* second operand from a dataRead of the length of the data width field at
\* the effective address, B + ofs in the offset form and B + (A << dw) in the
\* indexed form, never from register A or the immediate itself.
C26_MemOperandRead ==
    [][(op' = "handler" /\ RegVal(1) = ToWord(MemBase)) =>
          /\ \A opf \in MemOpCodes \cup { OPC_CMP_A }, f \in MemOfsForms :
                instrReg' = MemOfsWord(opf, f) =>
                    MemOpEffect(opf, dataRead(CpuState,
                        addAdrOfs32(RegVal(1), ToWord(f[2])), Pow2(f[1]), TRUE))
          /\ \A opf \in MemOpCodes \cup { OPC_CMP_B } :
                instrReg' = MemIdxWord(opf) =>
                    MemOpEffect(opf, dataRead(CpuState,
                        addAdrOfs32(RegVal(1), WShl(RegVal(3), MemIdxWidth)),
                        Pow2(MemIdxWidth), TRUE))]_vars

LogicResult(opf, a, b) ==
    CASE opf = OPC_AND -> WAnd(a, b)
      [] opf = OPC_OR -> WOr(a, b)
      [] OTHER -> WXor(a, b)

\* C27: operand form agreement for ALU AND, OR and XOR: the handler selects
\* the second operand the assembler encoded and the disassembler prints: the
\* word assembled from "op R, B, n" is printed with the number n and computes
\* B op n, the word assembled from "op R, B, A" is printed with the register
\* A and computes B op A.
C27_OperandFormAgreement ==
    [][(op' = "handler") =>
          \A opf \in LogicOpCodes :
              /\ \A n \in LogicImms :
                    instrReg' = parseModeTypeInstrNum(opf, 2, 1, n) =>
                        /\ buildOperandStr(instrReg')
                              = << GR(2), Id(","), GR(1), Id(",") >> \o PrintInt(n)
                        /\ gRegFile'[2] = LogicResult(opf, RegVal(1), ToWord(n))
              /\ instrReg' = parseModeTypeInstrGreg(opf, 2, 1, 3) =>
                    /\ buildOperandStr(instrReg')
                          = << GR(2), Id(","), GR(1), Id(","), GR(3) >>
                    /\ gRegFile'[2] = LogicResult(opf, RegVal(1), RegVal(3))]_vars

\* the cache and the operation a mnemonic of the CA family names
CacheNamed(name) == IF name \in { "PICA", "FICA" } THEN "iCache" ELSE "dCache"

OperationNamed(name) == IF name \in { "PICA", "PDCA" } THEN "purge" ELSE "flush"

\* C28: sub-opcode agreement for the SYS CA family: the cache operation the
\* CPU performs for a word (purge or flush, of the instruction or the data
\* cache) is the one named by the mnemonic the assembler encodes to its
\* option value and the disassembler prints for it: PICA 0, PDCA 1, FICA 2,
\* FDCA 3.
C28_CacheOpAgreement ==
    [][(op' = "handler" /\ lastHandler' = "instrSysCaOp") =>
          \A name \in CacheOpNames :
              instrReg' = parseInstrCacheOp(name, 2, 3, 1) =>
                  /\ buildOpCodeStr(instrReg') = << Id(name) >>
                  /\ lastTrap' = NoTrap
                  /\ caOp'[1] = CacheNamed(name)
                  /\ caOp'[2] = OperationNamed(name)]_vars

\* C29: after n >= 1 calls of addCmdLine, for every k with
\* 1 <= k <= min(n, MAX_CMD_HIST), getCmdLine( -k ) returns the k-th most
\* recently added line (getCmdLine( -1 ) the last line entered), also after
\* the circular buffer has filled and wrapped.
C29_RelativeLookup ==
    (/\ histOut.name = "getCmdLine"
     /\ histOut.cmdRef < 0
     /\ - histOut.cmdRef <= Len(cmdsAdded)
     /\ - histOut.cmdRef <= MAX_CMD_HIST)
        => histOut.line.cmdLine = cmdsAdded[Len(cmdsAdded) + 1 + histOut.cmdRef]

\* what the last call of assembleInstr returned
LastAssembled == IF asmAgain.ret # "none" THEN asmAgain ELSE asmResult

\* C30: the error state of the assembler reflects the most recent call: after
\* any sequence of assembleInstr calls getErrId() is the value the last call
\* returned, NO_ERR after a successful assembly even when an earlier call
\* failed.
C30_ErrIdOfLastCall ==
    LastAssembled.ret = "returned" => getErrId = LastAssembled.err

====
